---- MODULE Spec2Model ----
(***************************************************************************)
(* Model of the EVMore CosmWasm contracts.                                 *)
(*                                                                         *)
(* Part 1: the HTLC vault (contracts/cosmwasm/htlc).  The persisted state  *)
(* is the HTLCS map, the HTLC_COUNT item and the CONFIG item; every entry  *)
(* point runs to completion and either commits its writes or returns an    *)
(* error, in which case the host discards them.                            *)
(***************************************************************************)
EXTENDS Integers, Sequences, FiniteSets, TLC

(***************************************************************************)
(* Bounds of the model                                                     *)
(***************************************************************************)
\* number of commitments that may be created in one behaviour
MaxHtlcs == 1
\* number of commitments created in a behaviour that follows the identifiers
MaxCreated == 2
\* fractional decimal digits of a Decimal that the model keeps
DECIMAL_PLACES == 3
\* pool identifiers the router is called with: 1..MaxPoolId
MaxPoolId == 2
\* length of the router's list of connected channels
MaxChannels == 2

(***************************************************************************)
(* Program constants                                                       *)
(***************************************************************************)
\* constants.rs: HASHLOCK_LENGTH (hex characters of a SHA-256 digest)
HASHLOCK_LENGTH == 64
\* config.rs: ProtocolConfig::default().swap.timelock.max_duration
MAX_DURATION == 172800
\* sha2: a SHA-256 digest has 32 bytes
DIGEST_BYTES == 32
\* router constants.rs: IBC_TIMEOUT_BUFFER (seconds)
IBC_TIMEOUT_BUFFER == 300
\* router ibc.rs: IBC_VERSION
IBC_VERSION == "fusion-router-v1"
\* config.rs: ProtocolConfig::default().routing
MAX_HOPS == 4
MAX_ROUTES_TO_EXPLORE == 100
MINIMAL_AMOUNT == 1000
POOL_DISCOVERY_START == 1
POOL_DISCOVERY_END == 1000

(***************************************************************************)
(* hex::encode / hex::decode                                               *)
(* A string is a sequence of one-character strings, a byte a number in     *)
(* 0..255.  decode accepts both cases of a..f, encode writes lower case.   *)
(***************************************************************************)
HEX_CHARS_LOWER == <<"0","1","2","3","4","5","6","7","8","9","a","b","c","d","e","f">>
HEX_CHARS_UPPER == <<"0","1","2","3","4","5","6","7","8","9","A","B","C","D","E","F">>

\* the hex digits and their values
HEX_VALUES ==
    [c \in {HEX_CHARS_LOWER[i] : i \in 1..16} \cup {HEX_CHARS_UPPER[i] : i \in 1..16} |->
        IF \E i \in 1..16 : HEX_CHARS_LOWER[i] = c
        THEN (CHOOSE i \in 1..16 : HEX_CHARS_LOWER[i] = c) - 1
        ELSE (CHOOSE i \in 1..16 : HEX_CHARS_UPPER[i] = c) - 1]

\* hex::val: the value of a hex digit, 16 when the character is no hex digit
HexVal(c) == IF c \in DOMAIN HEX_VALUES THEN HEX_VALUES[c] ELSE 16

\* hex::decode(..).is_err(): odd length or a character that is no hex digit
HexDecodeIsErr(s) ==
    \/ Len(s) % 2 # 0
    \/ \E i \in 1..Len(s) : HexVal(s[i]) = 16

\* hex::decode on a string for which it succeeds
HexDecode(s) ==
    [i \in 1..(Len(s) \div 2) |-> 16 * HexVal(s[2 * i - 1]) + HexVal(s[2 * i])]

\* hex::encode: two lower-case digits per byte
HexEncode(b) ==
    [i \in 1..(2 * Len(b)) |->
        IF i % 2 = 1 THEN HEX_CHARS_LOWER[(b[(i + 1) \div 2] \div 16) + 1]
                     ELSE HEX_CHARS_LOWER[(b[i \div 2] % 16) + 1]]

\* the same digits written in upper case (what a client may submit)
ToUpperHex(s) == [i \in 1..Len(s) |-> HEX_CHARS_UPPER[HexVal(s[i]) + 1]]

RECURSIVE SumBytes(_)
SumBytes(b) == IF b = <<>> THEN 0 ELSE b[1] + SumBytes(Tail(b))

\* Sha256::new().update(bytes).finalize(): a fixed function from byte strings to
\* 32-byte digests (a stand-in for the library's compression function)
Sha256(b) ==
    [i \in 1..DIGEST_BYTES |-> (SumBytes(b) * 7 + Len(b) * 31 + i * 13) % 256]

(***************************************************************************)
(* cosmwasm_std::Decimal and Uint128                                       *)
(* A Decimal is a fixed-point number, held as its count of atomics: units  *)
(* of 10^-DECIMAL_PLACES.  The library has 18 places; the model keeps      *)
(* DECIMAL_PLACES of them, and every operation rounds down to an atomic    *)
(* exactly as the library does.  Products and quotients are computed one   *)
(* decimal digit at a time, so that no intermediate value leaves the       *)
(* integers of the model checker.                                          *)
(***************************************************************************)
RECURSIVE Pow10(_)
Pow10(k) == IF k = 0 THEN 1 ELSE 10 * Pow10(k - 1)

\* Decimal::DECIMAL_FRACTIONAL: the atomics of 1.0
DECIMAL_FRACTIONAL == Pow10(DECIMAL_PLACES)

DecimalOne == DECIMAL_FRACTIONAL
DecimalZero == 0
\* Decimal::percent, Decimal::permille
DecimalPercent(n) == n * (DECIMAL_FRACTIONAL \div 100)
DecimalPermille(n) == n * (DECIMAL_FRACTIONAL \div 1000)

\* floor((u * d + acc) / 10^k), the lowest digit of d first
RECURSIVE MulDigits(_, _, _, _)
MulDigits(u, d, k, acc) ==
    IF k = 0 THEN u * d + acc
    ELSE MulDigits(u, d \div 10, k - 1, (u * (d % 10) + acc) \div 10)

\* impl Mul<Decimal> for Uint128: u.multiply_ratio(d.atomics, DECIMAL_FRACTIONAL)
Uint128MulDecimal(u, d) ==
    IF u = 0 \/ d = 0 THEN 0 ELSE MulDigits(u, d, DECIMAL_PLACES, 0)

\* the quotient q and the remainder r of a division by d, carried on by k digits
RECURSIVE DivDigits(_, _, _, _)
DivDigits(q, r, d, k) ==
    IF k = 0 THEN q
    ELSE DivDigits(q * 10 + ((r * 10) \div d), (r * 10) % d, d, k - 1)

\* Decimal::from_ratio for a denominator that is not zero (it panics on zero):
\* floor(numerator * DECIMAL_FRACTIONAL / denominator) atomics
DecimalFromRatio(numerator, denominator) ==
    DivDigits(numerator \div denominator, numerator % denominator, denominator,
              DECIMAL_PLACES)

(***************************************************************************)
(* Inputs                                                                  *)
(***************************************************************************)
ADMIN == "admin"
CONTRACT_ADDR == "cosmos2contract"
Addrs == {"sender", "receiver", ADMIN}
\* deps.api.addr_validate: the addresses the chain accepts
AddrValid(a) == a \in Addrs

Funds100 == << [denom |-> "uatom", amount |-> 100] >>
Funds250 == << [denom |-> "uion", amount |-> 250] >>

\* block times the model visits
Times == {0, MAX_DURATION}

\* the secret "my" and its digest
PreimageBytes == <<109, 121>>
SecretHex == HexEncode(PreimageBytes)
LockLower == HexEncode(Sha256(PreimageBytes))
LockUpper == ToUpperHex(LockLower)
LockShort == SubSeq(LockLower, 1, HASHLOCK_LENGTH - 1)
LockNonHex == [LockLower EXCEPT ![1] = "g"]
LockLong == LockLower \o <<"0", "0">>

\* secrets presented to withdraw: the right one in both cases, a wrong one and
\* one that is no hex string
Secrets == { SecretHex, ToUpperHex(SecretHex), HexEncode(<<119>>), <<"z", "z">> }

\* dex.rs SwapParams
RouteA == [pool_id |-> 1, token_out_denom |-> "uosmo"]
ParamsA == [routes |-> <<RouteA>>, min_output_amount |-> 90,
            slippage_tolerance |-> DecimalPercent(1)]
ParamsB == [routes |-> <<RouteA>>, min_output_amount |-> 95,
            slippage_tolerance |-> DecimalPercent(50)]
ParamsSlip51 == [ParamsA EXCEPT !.slippage_tolerance = DecimalPercent(51)]
ParamsNoRoutes == [ParamsA EXCEPT !.routes = <<>>]
ParamsZeroMin == [ParamsA EXCEPT !.min_output_amount = 0]

\* an answer of the pool manager's estimate query: << >> for an error, or
\* << token_out_amount >>
QUERY_ERR == << >>

(***************************************************************************)
(* State                                                                   *)
(***************************************************************************)
VARIABLES
    htlcs,       \* state.rs HTLCS: Map<&str, Htlc>
    htlc_count,  \* state.rs HTLC_COUNT: Item<u64>
    config,      \* state.rs CONFIG: Item<Config>
    now,         \* env.block.time.seconds() of the next call
    emitted,     \* history: the messages of the successful responses, per commitment
    locked,      \* history: sender, receiver and amount of each commitment at its creation
    result,      \* the last call: entry point, caller, arguments, outcome, messages
    \* the router contract (contracts/cosmwasm/router)
    router_config,    \* router state.rs CONFIG: Item<Config>
    protocol_config,  \* fusion-plus PROTOCOL_CONFIG, as the router stores it
    chain_configs,    \* router state.rs CHAIN_CONFIGS: Map<&str, ChainConfig>
    pool_registry,    \* router state.rs POOL_REGISTRY: Map<u64, PoolInfo>
    pool_pairs,       \* router state.rs POOL_PAIRS: Map<(&str, &str), Vec<u64>>
    router_registry,  \* router state.rs ROUTER_REGISTRY: Map<&str, String>
    ibc_channels,     \* router ibc.rs IBC_CHANNELS: Item<Vec<IbcChannel>>
    router_result,    \* the last call of the router: entry point, arguments, outcome
    calc              \* the last evaluation of a pure function: arguments and value

\* the storage and history of the vault, and those of the router
vaultVars == <<htlcs, htlc_count, config, now, emitted, locked, result>>
routerVars == <<router_config, protocol_config, chain_configs, pool_registry, pool_pairs,
                router_registry, ibc_channels, router_result>>

vars == <<vaultVars, routerVars, calc>>

\* format!("htlc_{}", count)
HtlcId(count) == <<"htlc_", count>>

\* the identifiers callers present: every one that may exist, and one that never does
Ids == { HtlcId(n) : n \in 0..MaxHtlcs }

OK == "ok"

\* Map::save
Save(map, key, value) ==
    [k \in (DOMAIN map) \cup {key} |-> IF k = key THEN value ELSE map[k]]

\* Option<T>
None == << >>
Some(x) == << x >>

(***************************************************************************)
(* contract.rs: instantiate                                                *)
(***************************************************************************)
instantiate(admin) ==
    /\ config = [admin |-> admin, max_timelock_duration |-> MAX_DURATION]
    /\ htlc_count = 0
    /\ htlcs = << >>

(***************************************************************************)
(* dex.rs: validate_swap_params                                            *)
(***************************************************************************)
\* a validation that also turns away a tolerance of exactly 50%
validate_swap_params_below_half(p) ==
    IF p.routes = <<>> THEN "Std"
    ELSE IF p.min_output_amount = 0 THEN "Std"
    ELSE IF p.slippage_tolerance >= DecimalPercent(50) THEN "Std"
    ELSE OK

validate_swap_params(p) ==
    IF p.routes = <<>> THEN "Std"
    ELSE IF p.min_output_amount = 0 THEN "Std"
    ELSE IF p.slippage_tolerance > DecimalPercent(50) THEN "Std"
    ELSE OK

(***************************************************************************)
(* dex.rs: calculate_min_output_with_slippage                              *)
(***************************************************************************)
\* a result of a function that returns StdResult<Uint128>
Value(err, value) == [err |-> err, value |-> value]

\* a computation that adds the tolerance instead of taking it off
calculate_min_output_with_slippage_adds(estimated_output, slippage_tolerance) ==
    IF slippage_tolerance > DecimalOne THEN Value("Std", 0)
    ELSE Value(OK, Uint128MulDecimal(estimated_output, DecimalOne + slippage_tolerance))

\* Decimal::one().checked_sub(slippage_tolerance) fails when the tolerance is
\* above one
calculate_min_output_with_slippage(estimated_output, slippage_tolerance) ==
    IF slippage_tolerance > DecimalOne THEN Value("Std", 0)
    ELSE Value(OK, Uint128MulDecimal(estimated_output, DecimalOne - slippage_tolerance))

(***************************************************************************)
(* contract.rs: create_htlc                                                *)
(***************************************************************************)
\* a validation that closes the window one second early (>= for >)
create_htlc_check_ge(m, funds, time) ==
    IF ~AddrValid(m.receiver) THEN "Std"
    ELSE IF funds = <<>> THEN "InvalidAmount"
    ELSE IF m.timelock <= time THEN "InvalidTimelock"
    ELSE IF m.timelock >= time + config.max_timelock_duration THEN "InvalidTimelock"
    ELSE IF m.target_chain = "" THEN "TargetChainRequired"
    ELSE IF m.target_address = "" THEN "TargetAddressRequired"
    ELSE IF Len(m.hashlock) # HASHLOCK_LENGTH \/ HexDecodeIsErr(m.hashlock)
         THEN "InvalidHashFormat"
    ELSE OK

\* the validation of create_htlc, in the order of the code
create_htlc_check(m, funds, time) ==
    IF ~AddrValid(m.receiver) THEN "Std"
    ELSE IF funds = <<>> THEN "InvalidAmount"
    ELSE IF m.timelock <= time THEN "InvalidTimelock"
    ELSE IF m.timelock > time + config.max_timelock_duration THEN "InvalidTimelock"
    ELSE IF m.target_chain = "" THEN "TargetChainRequired"
    ELSE IF m.target_address = "" THEN "TargetAddressRequired"
    ELSE IF Len(m.hashlock) # HASHLOCK_LENGTH \/ HexDecodeIsErr(m.hashlock)
         THEN "InvalidHashFormat"
    ELSE OK

\* the Htlc value both creation entry points build
new_htlc(sender, funds, m, swap_params) ==
    [ sender |-> sender,
      receiver |-> m.receiver,
      amount |-> funds,
      hashlock |-> m.hashlock,
      timelock |-> m.timelock,
      withdrawn |-> FALSE,
      refunded |-> FALSE,
      target_chain |-> m.target_chain,
      target_address |-> m.target_address,
      swap_params |-> swap_params,
      swap_executed |-> FALSE ]

\* the response of a call: the error (or OK), the storage it leaves, its messages
Resp(err, map, count, msgs) == [err |-> err, htlcs |-> map, count |-> count, msgs |-> msgs]
\* an error return: the host discards the call's writes
Fail(err) == Resp(err, htlcs, htlc_count, <<>>)

\* a creation that advances the counter before it validates
create_htlc_counts_first(sender, funds, m, time) ==
    LET err == create_htlc_check(m, funds, time) IN
    IF err # OK THEN Resp(err, htlcs, htlc_count + 1, <<>>)
    ELSE Resp(OK,
              Save(htlcs, HtlcId(htlc_count), new_htlc(sender, funds, m, None)),
              htlc_count + 1,
              <<>>)

create_htlc(sender, funds, m, time) ==
    LET err == create_htlc_check(m, funds, time) IN
    IF err # OK THEN Fail(err)
    ELSE Resp(OK,
              Save(htlcs, HtlcId(htlc_count), new_htlc(sender, funds, m, None)),
              htlc_count + 1,
              <<>>)

(***************************************************************************)
(* contract.rs: withdraw                                                   *)
(***************************************************************************)
\* a withdraw that forgets the AlreadyWithdrawn check
withdraw_check_no_withdrawn(htlc, secret) ==
    IF htlc.refunded THEN "AlreadyRefunded"
    ELSE IF HexDecodeIsErr(secret) THEN "InvalidHashFormat"
    ELSE IF HexEncode(Sha256(HexDecode(secret))) # htlc.hashlock THEN "InvalidSecret"
    ELSE OK

withdraw_check(htlc, secret) ==
    IF htlc.withdrawn THEN "AlreadyWithdrawn"
    ELSE IF htlc.refunded THEN "AlreadyRefunded"
    ELSE IF HexDecodeIsErr(secret) THEN "InvalidHashFormat"
    ELSE IF HexEncode(Sha256(HexDecode(secret))) # htlc.hashlock THEN "InvalidSecret"
    ELSE OK

\* an update that also forgets the swap parameters
withdraw_update_clears_params(htlc) == [htlc EXCEPT !.withdrawn = TRUE, !.swap_params = None]

withdraw_update(htlc) == [htlc EXCEPT !.withdrawn = TRUE]

withdraw_msg(htlc) ==
    [type |-> "bank_send", to_address |-> htlc.receiver, amount |-> htlc.amount]

withdraw(htlc_id, secret) ==
    IF htlc_id \notin DOMAIN htlcs THEN Fail("Std")
    ELSE LET htlc == htlcs[htlc_id]
             err == withdraw_check(htlc, secret) IN
         IF err # OK THEN Fail(err)
         ELSE Resp(OK, Save(htlcs, htlc_id, withdraw_update(htlc)), htlc_count,
                   << withdraw_msg(withdraw_update(htlc)) >>)

(***************************************************************************)
(* contract.rs: refund                                                     *)
(***************************************************************************)
\* a refund that forgets to compare the caller with the commitment's sender
refund_check_no_auth(htlc, sender, time) ==
    IF htlc.withdrawn THEN "AlreadyWithdrawn"
    ELSE IF htlc.refunded THEN "AlreadyRefunded"
    ELSE IF time < htlc.timelock THEN "TimelockNotExpired"
    ELSE OK

\* a refund that authorizes the caller before it looks at the terminal flags
refund_check_auth_first(htlc, sender, time) ==
    IF sender # htlc.sender THEN "Unauthorized"
    ELSE IF htlc.withdrawn THEN "AlreadyWithdrawn"
    ELSE IF htlc.refunded THEN "AlreadyRefunded"
    ELSE IF time < htlc.timelock THEN "TimelockNotExpired"
    ELSE OK

\* a refund that forgets the AlreadyWithdrawn check
refund_check_no_withdrawn(htlc, sender, time) ==
    IF htlc.refunded THEN "AlreadyRefunded"
    ELSE IF sender # htlc.sender THEN "Unauthorized"
    ELSE IF time < htlc.timelock THEN "TimelockNotExpired"
    ELSE OK

\* checks that refuse the refund of a commitment whose swap was executed
refund_check_blocked_by_swap(htlc, sender, time) ==
    IF htlc.withdrawn THEN "AlreadyWithdrawn"
    ELSE IF htlc.refunded THEN "AlreadyRefunded"
    ELSE IF sender # htlc.sender THEN "Unauthorized"
    ELSE IF time < htlc.timelock THEN "TimelockNotExpired"
    ELSE IF htlc.swap_executed THEN "SwapAlreadyExecuted"
    ELSE OK

refund_check(htlc, sender, time) ==
    IF htlc.withdrawn THEN "AlreadyWithdrawn"
    ELSE IF htlc.refunded THEN "AlreadyRefunded"
    ELSE IF sender # htlc.sender THEN "Unauthorized"
    ELSE IF time < htlc.timelock THEN "TimelockNotExpired"
    ELSE OK

refund_update(htlc) == [htlc EXCEPT !.refunded = TRUE]

\* a refund that pays the receiver
refund_msg_to_receiver(htlc) ==
    [type |-> "bank_send", to_address |-> htlc.receiver, amount |-> htlc.amount]

refund_msg(htlc) ==
    [type |-> "bank_send", to_address |-> htlc.sender, amount |-> htlc.amount]

refund(sender, htlc_id, time) ==
    IF htlc_id \notin DOMAIN htlcs THEN Fail("Std")
    ELSE LET htlc == htlcs[htlc_id]
             err == refund_check(htlc, sender, time) IN
         IF err # OK THEN Fail(err)
         ELSE Resp(OK, Save(htlcs, htlc_id, refund_update(htlc)), htlc_count,
                   << refund_msg(refund_update(htlc)) >>)

(***************************************************************************)
(* contract.rs: create_htlc_with_swap                                      *)
(***************************************************************************)
\* validate_swap_params comes first, the estimate query after the other checks
create_htlc_with_swap_check(m, funds, swap_params, estimate, time) ==
    IF validate_swap_params(swap_params) # OK THEN "Std"
    ELSE IF ~AddrValid(m.receiver) THEN "Std"
    ELSE IF funds = <<>> THEN "InvalidAmount"
    ELSE IF m.timelock <= time THEN "InvalidTimelock"
    ELSE IF m.timelock > time + config.max_timelock_duration THEN "InvalidTimelock"
    ELSE IF m.target_chain = "" THEN "TargetChainRequired"
    ELSE IF m.target_address = "" THEN "TargetAddressRequired"
    ELSE IF Len(m.hashlock) # 64 \/ HexDecodeIsErr(m.hashlock) THEN "InvalidHashFormat"
    ELSE IF estimate = QUERY_ERR THEN "Std"
    ELSE IF estimate[1] < swap_params.min_output_amount THEN "InsufficientOutputAmount"
    ELSE OK

\* a creation that derives the identifier from the number of plain creations,
\* here always the first
create_htlc_with_swap_first_id(sender, funds, m, swap_params, estimate, time) ==
    LET err == create_htlc_with_swap_check(m, funds, swap_params, estimate, time) IN
    IF err # OK THEN Fail(err)
    ELSE Resp(OK,
              Save(htlcs, HtlcId(0), new_htlc(sender, funds, m, Some(swap_params))),
              htlc_count + 1,
              <<>>)

create_htlc_with_swap(sender, funds, m, swap_params, estimate, time) ==
    LET err == create_htlc_with_swap_check(m, funds, swap_params, estimate, time) IN
    IF err # OK THEN Fail(err)
    ELSE Resp(OK,
              Save(htlcs, HtlcId(htlc_count), new_htlc(sender, funds, m, Some(swap_params))),
              htlc_count + 1,
              <<>>)

(***************************************************************************)
(* contract.rs: execute_swap_and_lock, build_osmosis_swap_msg              *)
(***************************************************************************)
\* a check that forgets swap_executed
execute_swap_and_lock_check_no_executed(htlc, sender, swap_params) ==
    IF sender # htlc.sender /\ sender # config.admin THEN "Unauthorized"
    ELSE IF validate_swap_params(swap_params) # OK THEN "Std"
    ELSE OK

execute_swap_and_lock_check(htlc, sender, swap_params) ==
    IF sender # htlc.sender /\ sender # config.admin THEN "Unauthorized"
    ELSE IF htlc.swap_executed THEN "SwapAlreadyExecuted"
    ELSE IF validate_swap_params(swap_params) # OK THEN "Std"
    ELSE OK

build_osmosis_swap_msg(token_in, routes, min_output_amount, sender) ==
    [type |-> "swap_exact_amount_in",
     sender |-> sender,
     routes |-> routes,
     token_in |-> token_in,
     token_out_min_amount |-> min_output_amount]

\* an update that rebuilds the settlement flags instead of keeping them
execute_swap_and_lock_update_resets(htlc, swap_params) ==
    [htlc EXCEPT !.swap_executed = TRUE, !.swap_params = Some(swap_params),
                 !.withdrawn = FALSE, !.refunded = FALSE]

execute_swap_and_lock_update(htlc, swap_params) ==
    [htlc EXCEPT !.swap_executed = TRUE, !.swap_params = Some(swap_params)]

execute_swap_and_lock(sender, htlc_id, swap_params) ==
    IF htlc_id \notin DOMAIN htlcs THEN Fail("Std")
    ELSE LET htlc == htlcs[htlc_id]
             err == execute_swap_and_lock_check(htlc, sender, swap_params) IN
         IF err # OK THEN Fail(err)
         ELSE Resp(OK,
                   Save(htlcs, htlc_id, execute_swap_and_lock_update(htlc, swap_params)),
                   htlc_count,
                   << build_osmosis_swap_msg(htlc.amount[1], swap_params.routes,
                                             swap_params.min_output_amount, CONTRACT_ADDR) >>)

(***************************************************************************)
(* Part 2: the router (contracts/cosmwasm/router).                         *)
(*                                                                         *)
(* routing.rs: calculate_swap_output                                       *)
(* An error is "Std" for a returned StdError and "Panic" for an arithmetic *)
(* panic, which aborts the call.                                           *)
(***************************************************************************)
\* pool_info.liquidity.iter().find(|c| c.denom == denom): None, or the first
\* coin of that denomination
FindCoin(liquidity, denom) ==
    IF \E i \in 1..Len(liquidity) : liquidity[i].denom = denom
    THEN Some(liquidity[CHOOSE i \in 1..Len(liquidity) :
                  /\ liquidity[i].denom = denom
                  /\ \A j \in 1..(i - 1) : liquidity[j].denom # denom])
    ELSE None

\* the result of calculate_swap_output: (amount_out, fee) or an error
SwapOutput(err, amount, fee) == [err |-> err, amount |-> amount, fee |-> fee]

\* PoolType::Balancer: balance_out * (1 - balance_in / (balance_in + amount_in_with_fee))
balancer_output(balance_in, balance_out, amount_in_with_fee) ==
    LET ratio == DecimalFromRatio(balance_in, balance_in + amount_in_with_fee)
        out_ratio == DecimalOne - ratio
    IN  Uint128MulDecimal(balance_out, out_ratio)

calculate_swap_output(pool_info, token_in_denom, token_out_denom, amount_in) ==
    LET coin_in == FindCoin(pool_info.liquidity, token_in_denom)
        coin_out == FindCoin(pool_info.liquidity, token_out_denom)
    IN
    IF coin_in = None THEN SwapOutput("Std", 0, 0)
    ELSE IF coin_out = None THEN SwapOutput("Std", 0, 0)
    ELSE IF pool_info.swap_fee > DecimalOne THEN SwapOutput("Panic", 0, 0)
    ELSE
    LET balance_in == coin_in[1].amount
        balance_out == coin_out[1].amount
        amount_in_with_fee == Uint128MulDecimal(amount_in, DecimalOne - pool_info.swap_fee)
    IN
    CASE pool_info.pool_type = "Balancer" ->
           IF balance_in + amount_in_with_fee = 0 THEN SwapOutput("Panic", 0, 0)
           ELSE SwapOutput(OK, balancer_output(balance_in, balance_out, amount_in_with_fee),
                           pool_info.swap_fee)
      [] pool_info.pool_type = "StableSwap" ->
           SwapOutput(OK, amount_in_with_fee, pool_info.swap_fee)
      [] pool_info.pool_type = "ConcentratedLiquidity" ->
           IF balance_in = 0 THEN SwapOutput("Panic", 0, 0)
           ELSE SwapOutput(OK,
                           Uint128MulDecimal(amount_in_with_fee,
                                             DecimalFromRatio(balance_out, balance_in)),
                           pool_info.swap_fee)

(***************************************************************************)
(* routing.rs: find_pools_with_denom, find_best_routes                     *)
(***************************************************************************)
\* find_pools_with_denom collects the identifiers in a HashSet and returns
\* them in its iteration order, which the library leaves open: order is that
\* order, a sequence holding every pool identifier once
find_pools_with_denom(denom, order) ==
    SelectSeq(order, LAMBDA pool_id :
        /\ pool_id >= protocol_config.routing.pool_discovery_range.start
        /\ pool_id <= protocol_config.routing.pool_discovery_range.end
        /\ pool_id \in DOMAIN pool_registry
        /\ \E i \in 1..Len(pool_registry[pool_id].token_denoms) :
               pool_registry[pool_id].token_denoms[i] = denom)

\* the (pool, other_denom) pairs the two nested loops of find_best_routes visit
\* for one node, in their order
RECURSIVE HopCandidates(_)
HopCandidates(pools) ==
    IF pools = <<>> THEN <<>>
    ELSE [i \in 1..Len(pool_registry[Head(pools)].token_denoms) |->
             [pool_id |-> Head(pools), denom |-> pool_registry[Head(pools)].token_denoms[i]]]
         \o HopCandidates(Tail(pools))

RouteNode(denom, amount, path, total_fee) ==
    [denom |-> denom, amount |-> amount, path |-> path, total_fee |-> total_fee]

HopRoute(chain_id, pool_id, token_in_denom, token_out_denom) ==
    [chain_id |-> chain_id, pool_id |-> pool_id,
     token_in_denom |-> token_in_denom, token_out_denom |-> token_out_denom]

\* the body of the two for loops: st holds queue, visited, all_routes and the
\* error that ended the search, if any; enqueued is the history of the queue,
\* every node push_back was called with, in order
RECURSIVE ExpandNode(_, _, _, _)
ExpandNode(node, cands, end_denom, st) ==
    IF cands = <<>> \/ st.err # OK THEN st
    ELSE
    LET c == Head(cands)
        pool_info == pool_registry[c.pool_id]
    IN
    IF c.denom = node.denom \/ c.denom \in st.visited
    THEN ExpandNode(node, Tail(cands), end_denom, st)
    ELSE
    LET out == calculate_swap_output(pool_info, node.denom, c.denom, node.amount)
        new_node == RouteNode(c.denom, out.amount,
                              Append(node.path,
                                     HopRoute(pool_info.chain_id, pool_info.pool_id,
                                              node.denom, c.denom)),
                              node.total_fee + out.fee)
    IN
    IF out.err # OK THEN [st EXCEPT !.err = out.err]
    ELSE IF c.denom = end_denom
    THEN ExpandNode(node, Tail(cands), end_denom,
                    [st EXCEPT !.all_routes = Append(@, new_node)])
    ELSE ExpandNode(node, Tail(cands), end_denom,
                    [st EXCEPT !.queue = Append(@, new_node),
                               !.enqueued = Append(@, new_node),
                               !.visited =
                                   IF Len(st.all_routes) <
                                          protocol_config.routing.max_routes_to_explore
                                   THEN @ \cup {c.denom} ELSE @])

\* while let Some(node) = queue.pop_front()
RECURSIVE SearchLoop(_, _, _, _)
SearchLoop(st, end_denom, max_hops, order) ==
    IF st.err # OK \/ st.queue = <<>> THEN st
    ELSE
    LET node == Head(st.queue)
        popped == [st EXCEPT !.queue = Tail(@)]
    IN
    IF Len(node.path) >= max_hops
    THEN SearchLoop(popped, end_denom, max_hops, order)
    ELSE SearchLoop(ExpandNode(node,
                               HopCandidates(find_pools_with_denom(node.denom, order)),
                               end_denom, popped),
                    end_denom, max_hops, order)

\* insertion into a list sorted by descending amount, after the elements that
\* compare equal (sort_by is stable)
RECURSIVE InsertByAmount(_, _)
InsertByAmount(sorted, node) ==
    IF sorted = <<>> THEN <<node>>
    ELSE IF Head(sorted).amount >= node.amount
         THEN <<Head(sorted)>> \o InsertByAmount(Tail(sorted), node)
         ELSE <<node>> \o sorted

\* all_routes.sort_by(|a, b| b.amount.cmp(&a.amount))
RECURSIVE SortByAmountDesc(_)
SortByAmountDesc(routes) ==
    IF routes = <<>> THEN <<>>
    ELSE InsertByAmount(SortByAmountDesc(SubSeq(routes, 1, Len(routes) - 1)),
                        routes[Len(routes)])

\* the requested number of hops, taken as it comes
ClampMaxHops_unclamped(max_hops) ==
    IF max_hops = None THEN protocol_config.routing.max_hops ELSE max_hops[1]

\* max_hops.unwrap_or(config.routing.max_hops).min(config.routing.max_hops)
ClampMaxHops(max_hops) ==
    LET configured == protocol_config.routing.max_hops
        requested == IF max_hops = None THEN configured ELSE max_hops[1]
    IN  IF requested < configured THEN requested ELSE configured

\* the result of find_best_routes: the routes or an error
Routes(err, routes) == [err |-> err, routes |-> routes]

\* the search as it starts: the start node is in the queue and its
\* denomination is visited
SearchStart(start_denom, amount_in) ==
    [queue |-> <<RouteNode(start_denom, amount_in, <<>>, DecimalZero)>>,
     visited |-> {start_denom}, all_routes |-> <<>>, err |-> OK,
     enqueued |-> <<RouteNode(start_denom, amount_in, <<>>, DecimalZero)>>]

\* a search that returns the routes in the order it found them
find_best_routes_unsorted(start_denom, end_denom, amount_in, max_hops, order) ==
    LET st == SearchLoop(SearchStart(start_denom, amount_in), end_denom,
                         ClampMaxHops(max_hops), order)
    IN  IF st.err # OK THEN Routes(st.err, <<>>)
        ELSE IF Len(st.all_routes) <= 5 THEN Routes(OK, st.all_routes)
        ELSE Routes(OK, SubSeq(st.all_routes, 1, 5))

find_best_routes(start_denom, end_denom, amount_in, max_hops, order) ==
    LET st == SearchLoop(SearchStart(start_denom, amount_in), end_denom,
                         ClampMaxHops(max_hops), order)
        sorted == SortByAmountDesc(st.all_routes)
    IN  IF st.err # OK THEN Routes(st.err, <<>>)
        ELSE IF Len(sorted) <= 5 THEN Routes(OK, sorted)   \* into_iter().take(5)
        ELSE Routes(OK, SubSeq(sorted, 1, 5))

(***************************************************************************)
(* routing.rs: estimate_multi_hop_swap, calculate_price_impact             *)
(***************************************************************************)
\* an estimate that computes every hop from the amount the route starts with
RECURSIVE estimate_multi_hop_swap_same_input(_, _)
estimate_multi_hop_swap_same_input(routes, amount_in) ==
    IF routes = <<>> THEN SwapOutput(OK, amount_in, DecimalZero)
    ELSE
    LET hop == Head(routes) IN
    IF hop.pool_id \notin DOMAIN pool_registry THEN SwapOutput("Std", 0, 0)
    ELSE
    LET out == calculate_swap_output(pool_registry[hop.pool_id], hop.token_in_denom,
                                     hop.token_out_denom, amount_in)
        rest == estimate_multi_hop_swap_same_input(Tail(routes), amount_in)
    IN
    IF out.err # OK THEN out
    ELSE IF rest.err # OK THEN rest
    ELSE SwapOutput(OK, IF Tail(routes) = <<>> THEN out.amount ELSE rest.amount,
                    out.fee + rest.fee)

RECURSIVE estimate_multi_hop_swap(_, _)
estimate_multi_hop_swap(routes, amount_in) ==
    IF routes = <<>> THEN SwapOutput(OK, amount_in, DecimalZero)
    ELSE
    LET hop == Head(routes) IN
    IF hop.pool_id \notin DOMAIN pool_registry THEN SwapOutput("Std", 0, 0)
    ELSE
    LET out == calculate_swap_output(pool_registry[hop.pool_id], hop.token_in_denom,
                                     hop.token_out_denom, amount_in)
    IN
    IF out.err # OK THEN out
    ELSE LET rest == estimate_multi_hop_swap(Tail(routes), out.amount)
         IN  IF rest.err # OK THEN rest
             ELSE SwapOutput(OK, rest.amount, out.fee + rest.fee)

\* Decimal::from_ratio and the division of two Decimals panic on a zero divisor
calculate_price_impact(routes, amount_in) ==
    LET minimal_amount == protocol_config.routing.minimal_amount
        spot == estimate_multi_hop_swap(routes, minimal_amount)
        exec == estimate_multi_hop_swap(routes, amount_in)
    IN
    IF spot.err # OK THEN Value(spot.err, 0)
    ELSE IF spot.amount = 0 THEN Value("Panic", 0)
    ELSE IF exec.err # OK THEN Value(exec.err, 0)
    ELSE IF exec.amount = 0 THEN Value("Panic", 0)
    ELSE
    LET spot_price == DecimalFromRatio(minimal_amount, spot.amount)
        exec_price == DecimalFromRatio(amount_in, exec.amount)
    IN
    IF exec_price > spot_price
    THEN IF spot_price = 0 THEN Value("Panic", 0)
         ELSE Value(OK, DecimalFromRatio(exec_price - spot_price, spot_price))
    ELSE Value(OK, DecimalZero)

(***************************************************************************)
(* Inputs of the router                                                    *)
(***************************************************************************)
\* config.rs: impl Default for ProtocolConfig (the routing part)
DefaultProtocolConfig ==
    [routing |-> [max_hops |-> MAX_HOPS,
                  max_routes_to_explore |-> MAX_ROUTES_TO_EXPLORE,
                  minimal_amount |-> MINIMAL_AMOUNT,
                  pool_discovery_range |-> [start |-> POOL_DISCOVERY_START,
                                            end |-> POOL_DISCOVERY_END]]]

\* InstantiateMsg, as in the tests of contract.rs
DefaultInstantiateMsg ==
    [admin |-> None,
     supported_chains |-> << [chain_id |-> "osmosis-1", chain_prefix |-> "osmo",
                              ibc_channel |-> "channel-0", native_denom |-> "uosmo"] >>,
     registry_contract |-> None, protocol_config |-> None]

\* the router is instantiated with the default configuration or with one that
\* ProtocolConfig::validate accepts and that allows one hop at most
InstantiateMsgs ==
    { DefaultInstantiateMsg,
      [DefaultInstantiateMsg EXCEPT
          !.protocol_config = Some([DefaultProtocolConfig EXCEPT !.routing.max_hops = 1])] }

Coin(amount, denom) == [denom |-> denom, amount |-> amount]

\* the pool identifiers of the model
PoolIds == 1..MaxPoolId

PoolInfo(pool_id, pool_type, token_denoms, liquidity, swap_fee) ==
    [pool_id |-> pool_id, chain_id |-> "osmosis-1", pool_type |-> pool_type,
     token_denoms |-> token_denoms, liquidity |-> liquidity,
     swap_fee |-> swap_fee, exit_fee |-> DecimalZero]

\* the pool of the tests of routing.rs and contract.rs
PoolAtomOsmo(pool_id) ==
    PoolInfo(pool_id, "Balancer", <<"uatom", "uosmo">>,
             <<Coin(1000000, "uatom"), Coin(2000000, "uosmo")>>, DecimalPermille(3))

PoolOsmoUsdc(pool_id) ==
    PoolInfo(pool_id, "StableSwap", <<"uosmo", "uusdc">>,
             <<Coin(1000000, "uosmo"), Coin(1000000, "uusdc")>>, DecimalPermille(1))

\* a pool that lists one denomination three times; its reserves grow with its
\* identifier, so that a later pool gives the larger output
PoolAtomUsdc(pool_id) ==
    PoolInfo(pool_id, "ConcentratedLiquidity", <<"uatom", "uusdc", "uusdc", "uusdc">>,
             <<Coin(1000000, "uatom"), Coin(1000000 * pool_id, "uusdc")>>,
             DecimalPermille(3))

\* a weighted pool of four denominations with a reserve of each; it gives
\* fewer uosmo for uatom than the pool of the tests does
PoolMulti(pool_id) ==
    PoolInfo(pool_id, "Balancer", <<"uatom", "uusdc", "uosmo", "uion">>,
             <<Coin(1000000, "uatom"), Coin(1000000, "uusdc"), Coin(1000000, "uosmo"),
               Coin(500000, "uion")>>, DecimalPermille(3))

\* a pool that lists two denominations and holds no reserve entry
PoolNoReserves(pool_id) ==
    PoolInfo(pool_id, "Balancer", <<"uatom", "uosmo">>, <<>>, DecimalPermille(3))

\* a pool with a single denomination
PoolOneDenom(pool_id) ==
    PoolInfo(pool_id, "Balancer", <<"uatom">>, <<Coin(1000000, "uatom")>>, DecimalPermille(3))

\* RegisterPool messages: the pools of the two-hop route uatom -> uosmo -> uusdc
\* under the identifiers 1 and 2, a pool without reserves, a pool with a single
\* denomination, and under every identifier a direct pool uatom -> uusdc
RegisterCalls ==
    { [caller |-> ADMIN, pool_info |-> i] :
        i \in { PoolAtomOsmo(1), PoolNoReserves(1), PoolOneDenom(1), PoolOsmoUsdc(2) }
               \cup { PoolAtomUsdc(p) : p \in PoolIds } }
    \cup { [caller |-> "sender", pool_info |-> PoolAtomOsmo(1)] }

\* UpdatePoolInfo messages: the reserves of pool 1 are emptied; then messages
\* that fail a check
UpdateCalls ==
    { [caller |-> ADMIN, pool_id |-> 1, pool_info |-> PoolNoReserves(1)],
      [caller |-> ADMIN, pool_id |-> 1, pool_info |-> PoolOneDenom(1)],
      [caller |-> ADMIN, pool_id |-> 1, pool_info |-> PoolOsmoUsdc(2)],
      [caller |-> "sender", pool_id |-> 1, pool_info |-> PoolAtomOsmo(1)] }

RegisterRouterCalls ==
    { [caller |-> ADMIN, chain_id |-> "osmosis-1", router_address |-> "osmo1router"],
      [caller |-> ADMIN, chain_id |-> "osmosis-1", router_address |-> ""],
      [caller |-> "sender", chain_id |-> "osmosis-1", router_address |-> "osmo1router"] }

\* the orders a HashSet of the pool identifiers may be iterated in
PoolOrders ==
    { o \in [1..MaxPoolId -> PoolIds] : \A i, j \in 1..MaxPoolId : i # j => o[i] # o[j] }

\* FindBestRoute queries: uatom -> uusdc with max_hops omitted, 1 and 2, and a
\* small amount the other way
RouteQueries ==
    { [start_denom |-> "uatom", end_denom |-> "uusdc", amount_in |-> 100000, max_hops |-> h] :
        h \in {None, Some(1), Some(2)} }
    \cup { [start_denom |-> "uusdc", end_denom |-> "uatom", amount_in |-> 500,
            max_hops |-> None] }

\* ExecuteMultiHopSwap messages: one hop and two hops with a minimum the
\* estimate reaches, the same with a minimum above the estimate, then calls that
\* fail an earlier check
MultiHopCalls ==
    LET atom_osmo == HopRoute("osmosis-1", 1, "uatom", "uosmo")
        osmo_usdc == HopRoute("osmosis-1", 2, "uosmo", "uusdc")
        elsewhere == HopRoute("juno-1", 1, "uatom", "uosmo")
        funds == <<Coin(100000, "uatom")>>
        SwapMsg(f, routes, min_output, timeout_timestamp) ==
            [funds |-> f, routes |-> routes, min_output |-> min_output,
             timeout_timestamp |-> timeout_timestamp]
    IN  { SwapMsg(funds, <<atom_osmo>>, 100, 3600),
          SwapMsg(funds, <<atom_osmo>>, 190000, 3600),
          SwapMsg(funds, <<atom_osmo, osmo_usdc>>, 100, 3600),
          SwapMsg(funds, <<atom_osmo, osmo_usdc>>, 190000, 3600),
          SwapMsg(funds, <<elsewhere>>, 100, 3600),
          SwapMsg(funds, <<atom_osmo>>, 190000, 0),
          SwapMsg(funds, <<>>, 190000, 3600),
          SwapMsg(<<>>, <<atom_osmo>>, 190000, 3600) }

NoRouterCall == [op |-> "none", caller |-> "", inp |-> <<>>, err |-> OK, out |-> <<>>]
NoCalc == [fn |-> "none", inp |-> <<>>, out |-> <<>>]

(***************************************************************************)
(* router contract.rs: instantiate                                         *)
(***************************************************************************)
\* admin defaults to the caller; ProtocolConfig::with_override keeps the
\* default configuration unless the message carries one
router_instantiate(sender, msg) ==
    /\ router_config = [admin |-> IF msg.admin = None THEN sender ELSE msg.admin[1],
                        registry_contract |-> msg.registry_contract]
    /\ protocol_config = IF msg.protocol_config = None THEN DefaultProtocolConfig
                         ELSE msg.protocol_config[1]
    /\ chain_configs = [c \in {msg.supported_chains[i].chain_id :
                                   i \in 1..Len(msg.supported_chains)} |->
                           msg.supported_chains[
                               CHOOSE i \in 1..Len(msg.supported_chains) :
                                   /\ msg.supported_chains[i].chain_id = c
                                   /\ \A j \in (i + 1)..Len(msg.supported_chains) :
                                          msg.supported_chains[j].chain_id # c]]
    /\ pool_registry = << >>
    /\ pool_pairs = << >>
    /\ router_registry = << >>

(***************************************************************************)
(* router contract.rs: register_pool, update_pool_info, register_router    *)
(* A response of the router holds the error (or OK), the storage the call  *)
(* leaves and the messages it emits.                                       *)
(***************************************************************************)
RouterResp(err, pools, pairs, routers, msgs) ==
    [err |-> err, pool_registry |-> pools, pool_pairs |-> pairs,
     router_registry |-> routers, msgs |-> msgs]
\* an error return: the host discards the call's writes
RouterFail(err) == RouterResp(err, pool_registry, pool_pairs, router_registry, <<>>)

\* the index pairs (i, j), i < j, in the order of the two nested loops
RECURSIVE PairIndexes(_, _)
PairIndexes(i, n) ==
    IF i >= n THEN <<>>
    ELSE [k \in 1..(n - i) |-> <<i, i + k>>] \o PairIndexes(i + 1, n)

\* the pool pairs index after the loops of register_pool: both lists are read
\* (may_load(..)?.unwrap_or_default()), then both are written
RECURSIVE UpdatePoolPairs(_, _, _)
UpdatePoolPairs(pairs, pool_info, idx) ==
    IF idx = <<>> THEN pairs
    ELSE
    LET key1 == <<pool_info.token_denoms[Head(idx)[1]], pool_info.token_denoms[Head(idx)[2]]>>
        key2 == <<key1[2], key1[1]>>
        pools1 == Append(IF key1 \in DOMAIN pairs THEN pairs[key1] ELSE <<>>, pool_info.pool_id)
        pools2 == Append(IF key2 \in DOMAIN pairs THEN pairs[key2] ELSE <<>>, pool_info.pool_id)
    IN  UpdatePoolPairs(Save(Save(pairs, key1, pools1), key2, pools2), pool_info, Tail(idx))

register_pool_check(sender, pool_info) ==
    IF sender # router_config.admin THEN "Unauthorized"
    ELSE IF pool_info.pool_id \in DOMAIN pool_registry THEN "DuplicatePool"
    ELSE IF Len(pool_info.token_denoms) < 2 THEN "InvalidPoolConfig"
    ELSE OK

register_pool(sender, pool_info) ==
    LET err == register_pool_check(sender, pool_info) IN
    IF err # OK THEN RouterFail(err)
    ELSE RouterResp(OK,
                    Save(pool_registry, pool_info.pool_id, pool_info),
                    UpdatePoolPairs(pool_pairs, pool_info,
                                    PairIndexes(1, Len(pool_info.token_denoms))),
                    router_registry, <<>>)

update_pool_info_check(sender, pool_id, pool_info) ==
    IF sender # router_config.admin THEN "Unauthorized"
    ELSE IF pool_id \notin DOMAIN pool_registry THEN "PoolNotFound"
    ELSE IF Len(pool_info.token_denoms) < 2 \/ pool_info.pool_id # pool_id
         THEN "InvalidPoolConfig"
    ELSE OK

update_pool_info(sender, pool_id, pool_info) ==
    LET err == update_pool_info_check(sender, pool_id, pool_info) IN
    IF err # OK THEN RouterFail(err)
    ELSE RouterResp(OK, Save(pool_registry, pool_id, pool_info), pool_pairs,
                    router_registry, <<>>)

register_router(sender, chain_id, router_address) ==
    IF sender # router_config.admin THEN RouterFail("Unauthorized")
    ELSE IF router_address = "" THEN RouterFail("InvalidInput")
    ELSE RouterResp(OK, pool_registry, pool_pairs,
                    Save(router_registry, chain_id, router_address), <<>>)

(***************************************************************************)
(* router contract.rs: execute_multi_hop_swap and the messages it builds   *)
(***************************************************************************)
\* Uint128 is written as the string of its decimal digits and read back from
\* one; a string is the sequence of its digits here
RECURSIVE Uint128_to_string(_)
Uint128_to_string(n) ==
    IF n < 10 THEN <<n>> ELSE Append(Uint128_to_string(n \div 10), n % 10)

RECURSIVE Uint128_from_str(_)
Uint128_from_str(s) ==
    IF s = <<>> THEN 0
    ELSE 10 * Uint128_from_str(SubSeq(s, 1, Len(s) - 1)) + s[Len(s)]

\* to_json_binary and serde_json::to_string: the JSON text of a document. A
\* text is its format and the document it spells; an object is a record of its
\* members, null is None
to_json(doc) == [doc |-> doc, format |-> "json"]

\* Binary::to_string: the base64 string of the bytes, which is no JSON text
Binary_to_string(binary) == [doc |-> binary, format |-> "base64"]

\* the document serde writes for msg.rs SwapInstruction: every member is
\* written, an absent option as null
RECURSIVE SwapInstructionJson(_)
SwapInstructionJson(i) ==
    [forward |-> IF i.forward = None THEN None
                 ELSE LET f == i.forward[1] IN
                      Some([channel |-> f.channel,
                            next |-> IF f.next = None THEN None
                                     ELSE Some(SwapInstructionJson(f.next[1])),
                            port |-> f.port, receiver |-> f.receiver,
                            retries |-> f.retries, timeout |-> f.timeout]),
     min_output |-> IF i.min_output = None THEN None
                    ELSE Some(Uint128_to_string(i.min_output[1])),
     pool_id |-> i.pool_id,
     token_out_denom |-> i.token_out_denom]

\* the document read as msg.rs SwapInstruction: pool_id and token_out_denom
\* must be there, an option may be missing or null, a member the struct does
\* not have is an error, and so for ForwardInstruction
RECURSIVE SwapInstructionFromJson(_)
SwapInstructionFromJson(doc) ==
    LET Member(d, name) == IF name \in DOMAIN d THEN d[name] ELSE None
        forward == Member(doc, "forward")
        min_output == Member(doc, "min_output")
        next == IF forward = None THEN None ELSE Member(forward[1], "next")
        next_read == IF next = None THEN Value(OK, None)
                     ELSE LET r == SwapInstructionFromJson(next[1]) IN
                          Value(r.err, Some(r.value))
    IN
    IF ~({"pool_id", "token_out_denom"} \subseteq DOMAIN doc) THEN Value("Std", None)
    ELSE IF ~(DOMAIN doc \subseteq {"pool_id", "token_out_denom", "min_output", "forward"})
         THEN Value("Std", None)
    ELSE IF forward = None
         THEN Value(OK, [forward |-> None,
                         min_output |-> IF min_output = None THEN None
                                        ELSE Some(Uint128_from_str(min_output[1])),
                         pool_id |-> doc.pool_id,
                         token_out_denom |-> doc.token_out_denom])
    ELSE IF ~({"port", "channel", "receiver", "timeout", "retries"}
                  \subseteq DOMAIN forward[1])
         THEN Value("Std", None)
    ELSE IF ~(DOMAIN forward[1] \subseteq
                  {"port", "channel", "receiver", "timeout", "retries", "next"})
         THEN Value("Std", None)
    ELSE IF next_read.err # OK THEN Value("Std", None)
    ELSE Value(OK, [forward |-> Some([channel |-> forward[1].channel,
                                      next |-> next_read.value,
                                      port |-> forward[1].port,
                                      receiver |-> forward[1].receiver,
                                      retries |-> forward[1].retries,
                                      timeout |-> forward[1].timeout]),
                    min_output |-> IF min_output = None THEN None
                                   ELSE Some(Uint128_from_str(min_output[1])),
                    pool_id |-> doc.pool_id,
                    token_out_denom |-> doc.token_out_denom])

\* from_json::<SwapInstruction> of a memo string
from_json_SwapInstruction(text) ==
    IF text.format # "json" THEN Value("Std", None)
    ELSE SwapInstructionFromJson(text.doc)

\* the document serde writes for msg.rs IbcPacketData
IbcPacketDataJson(d) ==
    [amount |-> Uint128_to_string(d.amount), denom |-> d.denom, memo |-> d.memo,
     receiver |-> d.receiver, sender |-> d.sender]

\* from_json::<IbcPacketData> of the bytes of a packet
from_json_IbcPacketData(text) ==
    IF text.format # "json" THEN Value("Std", None)
    ELSE IF ~({"sender", "receiver", "denom", "amount"} \subseteq DOMAIN text.doc)
         THEN Value("Std", None)
    ELSE IF ~(DOMAIN text.doc \subseteq {"sender", "receiver", "denom", "amount", "memo"})
         THEN Value("Std", None)
    ELSE Value(OK, [amount |-> Uint128_from_str(text.doc.amount),
                    denom |-> text.doc.denom,
                    memo |-> IF "memo" \in DOMAIN text.doc THEN text.doc.memo ELSE None,
                    receiver |-> text.doc.receiver,
                    sender |-> text.doc.sender])

\* the answer of get_router_address: the chain registry is asked first when one
\* is configured (registry_answer is its answer, None when the query fails),
\* then the local ROUTER_REGISTRY
get_router_address(chain_id, registry_answer) ==
    IF router_config.registry_contract # None /\ registry_answer # None
    THEN Value(OK, registry_answer[1])
    ELSE IF chain_id \in DOMAIN router_registry THEN Value(OK, router_registry[chain_id])
    ELSE Value("Std", "")

\* a memo that carries the minimum on every hop and never a forward
build_hop_memo_final_everywhere(hop, is_final, min_output, remaining_hops, registry_answer) ==
    Value(OK, to_json([forward |-> None,
                       swap |-> [min_output |-> Some(Uint128_to_string(min_output)),
                                 pool_id |-> hop.pool_id,
                                 token_out_denom |-> hop.token_out_denom]]))

\* the memo of one hop: the JSON text serde_json writes for the local struct
\* HopMemo, whose min_output is the string min_output.to_string()
build_hop_memo(hop, is_final, min_output, remaining_hops, registry_answer) ==
    LET swap == [min_output |-> IF is_final THEN Some(Uint128_to_string(min_output))
                                ELSE None,
                 pool_id |-> hop.pool_id, token_out_denom |-> hop.token_out_denom]
    IN
    IF ~is_final /\ remaining_hops # <<>>
    THEN LET next_hop == Head(remaining_hops)
             receiver == get_router_address(next_hop.chain_id, registry_answer)
         IN  IF next_hop.chain_id \notin DOMAIN chain_configs THEN Value("Std", None)
             ELSE IF receiver.err # OK THEN Value("Std", None)
             ELSE Value(OK, to_json(
                      [forward |-> Some([channel |-> chain_configs[next_hop.chain_id].ibc_channel,
                                         next |-> None,
                                         port |-> "transfer",
                                         receiver |-> receiver.value,
                                         retries |-> 0,
                                         timeout |-> IBC_TIMEOUT_BUFFER]),
                       swap |-> swap]))
    ELSE Value(OK, to_json([forward |-> None, swap |-> swap]))

\* the loop of build_multi_hop_messages from hop i on
RECURSIVE build_hop_messages(_, _, _, _, _, _, _, _)
build_hop_messages(sender, routes, i, current_amount, current_denom, min_output, timeout_timestamp, registry_answer) ==
    IF i > Len(routes) THEN Value(OK, <<>>)
    ELSE
    LET hop == routes[i]
        is_final == (i = Len(routes))
        memo == build_hop_memo(hop, is_final, min_output,
                               SubSeq(routes, i + 1, Len(routes)), registry_answer)
        receiver == IF is_final THEN Value(OK, sender)
                    ELSE get_router_address(hop.chain_id, registry_answer)
    IN
    IF hop.chain_id \notin DOMAIN chain_configs THEN Value("Std", <<>>)
    ELSE IF memo.err # OK THEN Value("Std", <<>>)
    ELSE IF receiver.err # OK THEN Value("Std", <<>>)
    ELSE
    LET ibc_msg == [channel_id |-> chain_configs[hop.chain_id].ibc_channel,
                    data |-> to_json(IbcPacketDataJson(
                                 [amount |-> current_amount, denom |-> current_denom,
                                  memo |-> Some(memo.value),
                                  receiver |-> receiver.value, sender |-> sender])),
                    timeout |-> IF timeout_timestamp < IBC_TIMEOUT_BUFFER THEN 0
                                ELSE timeout_timestamp - IBC_TIMEOUT_BUFFER,
                    type |-> "IbcMsg::SendPacket"]
    IN
    IF is_final THEN Value(OK, <<ibc_msg>>)
    ELSE IF hop.pool_id \notin DOMAIN pool_registry THEN Value("Std", <<>>)
    ELSE
    LET out == calculate_swap_output(pool_registry[hop.pool_id], current_denom,
                                     hop.token_out_denom, current_amount)
    IN
    IF out.err # OK THEN Value(out.err, <<>>)
    ELSE LET rest == build_hop_messages(sender, routes, i + 1, out.amount,
                                        hop.token_out_denom, min_output,
                                        timeout_timestamp, registry_answer)
         IN  IF rest.err # OK THEN rest ELSE Value(OK, <<ibc_msg>> \o rest.value)

build_multi_hop_messages(sender, funds, routes, amount_in, min_output, timeout_timestamp, registry_answer) ==
    build_hop_messages(sender, routes, 1, amount_in, funds[1].denom, min_output,
                       timeout_timestamp, registry_answer)

\* checks that leave the comparison with min_output out
execute_multi_hop_swap_check_no_slippage(funds, routes, min_output, timeout_timestamp, time) ==
    IF timeout_timestamp <= time THEN "Std"
    ELSE IF routes = <<>> THEN "NoRouteFound"
    ELSE IF funds = <<>> THEN "Panic"
    ELSE estimate_multi_hop_swap(routes, funds[1].amount).err

\* the checks of execute_multi_hop_swap up to the slippage check, in the order
\* of the code; info.funds[0] panics when no coin was sent
execute_multi_hop_swap_check(funds, routes, min_output, timeout_timestamp, time) ==
    IF timeout_timestamp <= time THEN "Std"
    ELSE IF routes = <<>> THEN "NoRouteFound"
    ELSE IF funds = <<>> THEN "Panic"
    ELSE LET estimate == estimate_multi_hop_swap(routes, funds[1].amount) IN
         IF estimate.err # OK THEN estimate.err
         ELSE IF estimate.amount < min_output THEN "SlippageExceeded"
         ELSE OK

execute_multi_hop_swap(sender, funds, routes, min_output, timeout_timestamp, time, registry_answer) ==
    LET err == execute_multi_hop_swap_check(funds, routes, min_output,
                                            timeout_timestamp, time)
    IN
    IF err # OK THEN RouterFail(err)
    ELSE LET messages == build_multi_hop_messages(sender, funds, routes, funds[1].amount,
                                                  min_output, timeout_timestamp,
                                                  registry_answer)
         IN  IF messages.err # OK THEN RouterFail(messages.err)
             ELSE RouterResp(OK, pool_registry, pool_pairs, router_registry, messages.value)

(***************************************************************************)
(* router contract.rs: query_find_best_route                               *)
(***************************************************************************)
RouteResponse(err, routes, estimated_output, total_fees, price_impact) ==
    [err |-> err, routes |-> routes, estimated_output |-> estimated_output,
     total_fees |-> total_fees, price_impact |-> price_impact]

\* what query_find_best_route answers once the search has returned found
route_response(found, amount_in) ==
    IF found.err # OK THEN RouteResponse(found.err, <<>>, 0, 0, 0)
    ELSE IF found.routes = <<>> THEN RouteResponse(OK, <<>>, 0, DecimalZero, DecimalZero)
    ELSE
    LET best_route == found.routes[1]
        price_impact == calculate_price_impact(best_route.path, amount_in)
    IN
    IF price_impact.err # OK THEN RouteResponse(price_impact.err, <<>>, 0, 0, 0)
    ELSE RouteResponse(OK, [i \in 1..Len(found.routes) |-> found.routes[i].path],
                       best_route.amount, best_route.total_fee, price_impact.value)

query_find_best_route(start_denom, end_denom, amount_in, max_hops, order) ==
    route_response(find_best_routes(start_denom, end_denom, amount_in, max_hops, order),
                   amount_in)

(***************************************************************************)
(* router ibc.rs: the channel handshake                                    *)
(***************************************************************************)
\* a validation that looks at the version only
validate_order_and_version_no_order(channel, counterparty_version) ==
    IF counterparty_version # None /\ counterparty_version[1] # IBC_VERSION
    THEN "InvalidIbcVersion"
    ELSE OK

validate_order_and_version(channel, counterparty_version) ==
    IF channel.order # "Unordered" THEN "InvalidIbcChannelOrder"
    ELSE IF counterparty_version # None /\ counterparty_version[1] # IBC_VERSION
         THEN "InvalidIbcVersion"
    ELSE OK

\* a response of an IBC entry point: the error (or OK), the channel list the
\* call leaves, and the version an accepted open answers with
IbcResp(err, channels, version) == [err |-> err, ibc_channels |-> channels, version |-> version]

ibc_channel_open(channel, counterparty_version) ==
    LET err == validate_order_and_version(channel, counterparty_version) IN
    IF err # OK THEN IbcResp(err, ibc_channels, None)
    ELSE IbcResp(OK, ibc_channels, Some(IBC_VERSION))

ibc_channel_connect(channel, counterparty_version) ==
    LET err == validate_order_and_version(channel, counterparty_version) IN
    IF err # OK THEN IbcResp(err, ibc_channels, None)
    ELSE IbcResp(OK, Append(ibc_channels, channel), None)

ibc_channel_close(channel) ==
    IbcResp(OK,
            SelectSeq(ibc_channels,
                      LAMBDA c : c.endpoint.channel_id # channel.endpoint.channel_id),
            None)

(***************************************************************************)
(* router ibc.rs: the packet handlers                                      *)
(***************************************************************************)
\* a response of a packet handler: the error (or OK), the messages, the
\* acknowledgement set (None when none was set) and the attributes by key
PacketResp(err, messages, ack, attributes) ==
    [ack |-> ack, attributes |-> attributes, err |-> err, messages |-> messages]

\* the placeholder of the swap: a bank transfer of the output denomination to
\* the address it is given, of min_output or else of the amount that came in
create_osmosis_swap_msg(sender, token_in_denom, token_in_amount, pool_id, token_out_denom, min_output) ==
    [amount |-> <<Coin(IF min_output = None THEN token_in_amount ELSE min_output[1],
                       token_out_denom)>>,
     to_address |-> sender,
     type |-> "BankMsg::Send"]

\* the next instruction is serialized with to_json_binary and the memo is the
\* Binary's to_string(); IBC_CHANNELS is not read
create_forward_msg(time, sender, denom, amount, forward) ==
    LET next_memo == IF forward.next = None THEN None
                     ELSE Some(to_json(SwapInstructionJson(forward.next[1])))
        packet_data == [amount |-> amount, denom |-> denom,
                        memo |-> IF next_memo = None THEN None
                                 ELSE Some(Binary_to_string(next_memo[1])),
                        receiver |-> forward.receiver, sender |-> sender]
    IN  [channel_id |-> forward.channel,
         data |-> to_json(IbcPacketDataJson(packet_data)),
         timeout |-> time + forward.timeout,
         type |-> "IbcMsg::SendPacket"]

process_ibc_swap(time, packet_data) ==
    LET swap_data == from_json_SwapInstruction(packet_data.memo[1])
        swap_msg == create_osmosis_swap_msg(packet_data.receiver, packet_data.denom,
                                            packet_data.amount, swap_data.value.pool_id,
                                            swap_data.value.token_out_denom,
                                            swap_data.value.min_output)
        forward_msg == create_forward_msg(time, packet_data.receiver,
                                          swap_data.value.token_out_denom,
                                          packet_data.amount, swap_data.value.forward[1])
        ack == to_json([success |-> TRUE])
        attributes == [action |-> "process_ibc_swap", recipient |-> packet_data.receiver]
    IN
    IF packet_data.memo = None THEN PacketResp(OK, <<>>, Some(ack), attributes)
    ELSE IF swap_data.err # OK THEN PacketResp(swap_data.err, <<>>, None, <<>>)
    ELSE IF swap_data.value.forward = None
         THEN PacketResp(OK, <<swap_msg>>, Some(ack), attributes)
    ELSE PacketResp(OK, <<swap_msg, forward_msg>>, Some(ack), attributes)

ibc_packet_receive(time, packet) ==
    LET packet_data == from_json_IbcPacketData(packet.data) IN
    IF packet_data.err # OK THEN PacketResp(packet_data.err, <<>>, None, <<>>)
    ELSE process_ibc_swap(time, packet_data.value)

ibc_packet_ack(original_packet, acknowledgement) ==
    PacketResp(OK, <<>>, None,
               [action |-> "ibc_packet_ack",
                packet_sequence |-> Uint128_to_string(original_packet.sequence)])

\* a timeout handler that reports the receiver of the packet
ibc_packet_timeout_to_receiver(packet) ==
    LET packet_data == from_json_IbcPacketData(packet.data) IN
    IF packet_data.err # OK THEN PacketResp(packet_data.err, <<>>, None, <<>>)
    ELSE PacketResp(OK, <<>>, None,
                    [action |-> "ibc_packet_timeout",
                     packet_sequence |-> Uint128_to_string(packet.sequence),
                     refund_to |-> packet_data.value.receiver])

ibc_packet_timeout(packet) ==
    LET packet_data == from_json_IbcPacketData(packet.data) IN
    IF packet_data.err # OK THEN PacketResp(packet_data.err, <<>>, None, <<>>)
    ELSE PacketResp(OK, <<>>, None,
                    [action |-> "ibc_packet_timeout",
                     packet_sequence |-> Uint128_to_string(packet.sequence),
                     refund_to |-> packet_data.value.sender])

(***************************************************************************)
(* The calls the model makes                                               *)
(***************************************************************************)
\* the timelocks creations are tried with: at time 0 they are now, inside the
\* window, its last second and the first second beyond it; at time MAX_DURATION
\* the first three are past or now and the last is inside the window
Timelocks == {0, 3600, MAX_DURATION, MAX_DURATION + 1}

BaseMsg(timelock) ==
    [ receiver |-> "receiver", hashlock |-> LockLower, timelock |-> timelock,
      target_chain |-> "cosmoshub-4", target_address |-> "cosmos1abc" ]

Call(m, funds) == [m |-> m, funds |-> funds]

\* CreateHtlc messages: every timelock with the other fields valid, the
\* hashlock spelled in upper case, then one invalid field at a time, then two
\* invalid fields at once
CreateCalls ==
    { Call(BaseMsg(t), Funds100) : t \in Timelocks }
    \cup
    { Call([BaseMsg(MAX_DURATION) EXCEPT !.hashlock = LockUpper], Funds100),
      Call([BaseMsg(MAX_DURATION) EXCEPT !.hashlock = LockShort], Funds100),
      Call([BaseMsg(MAX_DURATION) EXCEPT !.hashlock = LockLong], Funds100),
      Call([BaseMsg(MAX_DURATION) EXCEPT !.hashlock = LockNonHex], Funds100),
      Call([BaseMsg(MAX_DURATION) EXCEPT !.receiver = ""], Funds100),
      Call([BaseMsg(MAX_DURATION) EXCEPT !.target_chain = ""], Funds100),
      Call([BaseMsg(MAX_DURATION) EXCEPT !.target_address = ""], Funds100),
      Call(BaseMsg(MAX_DURATION), <<>>),
      Call(BaseMsg(0), <<>>),
      Call([BaseMsg(MAX_DURATION + 1) EXCEPT !.receiver = ""], Funds100) }

SwapCall(m, funds, swap_params, estimate) ==
    [m |-> m, funds |-> funds, swap_params |-> swap_params, estimate |-> estimate]

\* CreateHtlcWithSwap messages and the estimate the pool manager answers with
CreateWithSwapCalls ==
    { SwapCall(BaseMsg(t), Funds250, ParamsB, <<95>>) : t \in Timelocks }
    \cup
    { SwapCall(BaseMsg(MAX_DURATION), Funds250, ParamsB, QUERY_ERR),
      SwapCall(BaseMsg(MAX_DURATION), Funds250, ParamsB, <<94>>),
      SwapCall(BaseMsg(MAX_DURATION), Funds250, ParamsSlip51, <<95>>),
      SwapCall(BaseMsg(0), Funds250, ParamsSlip51, <<95>>),
      SwapCall(BaseMsg(MAX_DURATION), Funds250, ParamsNoRoutes, <<95>>),
      SwapCall(BaseMsg(MAX_DURATION), Funds250, ParamsZeroMin, <<95>>),
      SwapCall([BaseMsg(MAX_DURATION) EXCEPT !.hashlock = LockShort], Funds250, ParamsB, <<95>>),
      SwapCall(BaseMsg(MAX_DURATION), <<>>, ParamsB, <<95>>) }

\* the parameters ExecuteSwapAndLock is called with
ExecuteParams == {ParamsA, ParamsSlip51, ParamsNoRoutes, ParamsZeroMin}

\* withdraw ignores its caller (_info); the model lets the receiver call it
WithdrawCallers == {"receiver"}

\* refund is tried by the commitment's sender and by somebody else
RefundCallers == {"sender", "receiver"}

NoCall == [op |-> "none", caller |-> "", id |-> <<>>, inp |-> <<>>, err |-> OK, msgs |-> <<>>]

\* the end of a call: the host commits what the response holds and hands out its
\* messages; an error response holds the storage as it was
Commit(op, caller, id, inp, r) ==
    /\ htlcs' = r.htlcs
    /\ htlc_count' = r.count
    /\ emitted' = IF r.msgs = <<>> THEN emitted ELSE [emitted EXCEPT ![id] = @ \o r.msgs]
    /\ locked' = [k \in DOMAIN r.htlcs |->
                     IF k \in DOMAIN locked THEN locked[k]
                     ELSE [sender |-> r.htlcs[k].sender, receiver |-> r.htlcs[k].receiver,
                           amount |-> r.htlcs[k].amount]]
    /\ result' = [op |-> op, caller |-> caller, id |-> id, inp |-> inp,
                  err |-> r.err, msgs |-> r.msgs]
    /\ UNCHANGED <<config, now, routerVars, calc>>

Init ==
    /\ instantiate(ADMIN)
    /\ now = 0
    /\ emitted = [id \in Ids |-> <<>>]
    /\ locked = << >>
    /\ result = NoCall
    /\ router_instantiate(ADMIN, DefaultInstantiateMsg)
    /\ ibc_channels = <<>>
    /\ router_result = NoRouterCall
    /\ calc = NoCalc

CreateHtlc ==
    /\ htlc_count < MaxHtlcs
    /\ \E c \in CreateCalls :
         Commit("create_htlc", "sender", HtlcId(htlc_count), c,
                create_htlc("sender", c.funds, c.m, now))

CreateHtlcWithSwap ==
    /\ htlc_count < MaxHtlcs
    /\ \E c \in CreateWithSwapCalls :
         Commit("create_htlc_with_swap", "sender", HtlcId(htlc_count), c,
                create_htlc_with_swap("sender", c.funds, c.m, c.swap_params, c.estimate, now))

Withdraw ==
    \E caller \in WithdrawCallers, id \in Ids, secret \in Secrets :
        Commit("withdraw", caller, id, secret, withdraw(id, secret))

Refund ==
    \E caller \in RefundCallers, id \in Ids :
        Commit("refund", caller, id, <<>>, refund(caller, id, now))

ExecuteSwapAndLock ==
    \E caller \in Addrs, id \in Ids, p \in ExecuteParams :
        Commit("execute_swap_and_lock", caller, id, p, execute_swap_and_lock(caller, id, p))

\* the chain produces a later block
Tick ==
    /\ \E t \in Times : t > now /\ now' = t
    /\ result' = NoCall
    /\ UNCHANGED <<htlcs, htlc_count, config, emitted, locked, routerVars, calc>>

Next ==
    \/ CreateHtlc
    \/ CreateHtlcWithSwap
    \/ Withdraw
    \/ Refund
    \/ ExecuteSwapAndLock
    \/ Tick

Spec == Init /\ [][Next]_vars

TypeOK ==
    /\ htlc_count \in 0..MaxHtlcs
    /\ DOMAIN htlcs = { HtlcId(n) : n \in 0..(htlc_count - 1) }
    /\ now \in Times

(***************************************************************************)
(* The vault with several commitments: creations one after the other, and  *)
(* refunds between them                                                    *)
(***************************************************************************)
ManyNext ==
    \/ /\ htlc_count < MaxCreated
       /\ \E c \in CreateCalls :
            Commit("create_htlc", "sender", HtlcId(htlc_count), c,
                   create_htlc("sender", c.funds, c.m, now))
    \/ /\ htlc_count < MaxCreated
       /\ \E c \in CreateWithSwapCalls :
            Commit("create_htlc_with_swap", "sender", HtlcId(htlc_count), c,
                   create_htlc_with_swap("sender", c.funds, c.m, c.swap_params,
                                         c.estimate, now))
    \/ Refund
    \/ Tick

SpecMany == Init /\ [][ManyNext]_vars

(***************************************************************************)
(* The vault while time passes every timelock and the sender of each       *)
(* commitment keeps asking for its refund                                  *)
(***************************************************************************)
\* the first second after every timelock a creation of the model accepts
LastTime == MAX_DURATION + 1

\* the chain produces a later block, up to one past every timelock
TickLive ==
    /\ \E t \in Times \cup {LastTime} : t > now /\ now' = t
    /\ result' = NoCall
    /\ UNCHANGED <<htlcs, htlc_count, config, emitted, locked, routerVars, calc>>

\* the sender's refund of one commitment
RefundBySender(id) ==
    Commit("refund", "sender", id, <<>>, refund("sender", id, now))

\* the vault's entry points on commitments with an early and with the latest
\* timelock and with a hashlock no secret opens, with the right and a wrong
\* secret, refunds by the sender and by somebody else
LiveNext ==
    \/ /\ htlc_count < MaxHtlcs
       /\ \E c \in { Call(BaseMsg(t), Funds100) : t \in {3600, LastTime} }
                   \cup { Call([BaseMsg(3600) EXCEPT !.hashlock = LockUpper], Funds100) } :
            Commit("create_htlc", "sender", HtlcId(htlc_count), c,
                   create_htlc("sender", c.funds, c.m, now))
    \/ \E id \in Ids, secret \in {SecretHex, HexEncode(<<119>>)} :
            Commit("withdraw", "receiver", id, secret, withdraw(id, secret))
    \/ Refund
    \/ \E id \in Ids :
            Commit("execute_swap_and_lock", "sender", id, ParamsA,
                   execute_swap_and_lock("sender", id, ParamsA))
    \/ TickLive

\* time advances, and the sender's refund call is made whenever it stays possible
SpecLive ==
    /\ Init
    /\ [][LiveNext]_vars
    /\ WF_vars(TickLive)
    /\ \A id \in Ids : WF_vars(RefundBySender(id))

(***************************************************************************)
(* The vault with several commitments, plain and with swap parameters, on  *)
(* which every entry point is tried                                        *)
(***************************************************************************)
FrameNext ==
    \/ /\ htlc_count < MaxCreated
       /\ \E c \in { Call(BaseMsg(t), Funds100) : t \in {0, 3600} } :
            Commit("create_htlc", "sender", HtlcId(htlc_count), c,
                   create_htlc("sender", c.funds, c.m, now))
    \/ /\ htlc_count < MaxCreated
       /\ \E c \in { SwapCall(BaseMsg(3600), Funds250, ParamsB, <<95>>) } :
            Commit("create_htlc_with_swap", "sender", HtlcId(htlc_count), c,
                   create_htlc_with_swap("sender", c.funds, c.m, c.swap_params,
                                         c.estimate, now))
    \/ \E id \in Ids, secret \in {SecretHex, HexEncode(<<119>>)} :
            Commit("withdraw", "receiver", id, secret, withdraw(id, secret))
    \/ Refund
    \/ \E id \in Ids, p \in {ParamsA, ParamsSlip51} :
            Commit("execute_swap_and_lock", "sender", id, p,
                   execute_swap_and_lock("sender", id, p))
    \/ Tick

SpecFrame == Init /\ [][FrameNext]_vars

(***************************************************************************)
(* The router: its calls as actions                                        *)
(***************************************************************************)
\* the router after an instantiation, beside the vault after its own
RouterInit ==
    /\ instantiate(ADMIN)
    /\ now = 0
    /\ emitted = [id \in Ids |-> <<>>]
    /\ locked = << >>
    /\ result = NoCall
    /\ \E msg \in InstantiateMsgs : router_instantiate(ADMIN, msg)
    /\ ibc_channels = <<>>
    /\ router_result = NoRouterCall
    /\ calc = NoCalc

\* the end of an execute call of the router: the host commits the storage the
\* response holds; an error response holds the storage as it was
RouterCommit(op, caller, inp, r) ==
    /\ pool_registry' = r.pool_registry
    /\ pool_pairs' = r.pool_pairs
    /\ router_registry' = r.router_registry
    /\ router_result' = [op |-> op, caller |-> caller, inp |-> inp,
                         err |-> r.err, out |-> r.msgs]
    /\ UNCHANGED <<router_config, protocol_config, chain_configs, ibc_channels,
                   vaultVars, calc>>

RegisterPool ==
    \E c \in RegisterCalls :
        RouterCommit("register_pool", c.caller, c, register_pool(c.caller, c.pool_info))

UpdatePoolInfo ==
    \E c \in UpdateCalls :
        RouterCommit("update_pool_info", c.caller, c,
                     update_pool_info(c.caller, c.pool_id, c.pool_info))

RegisterRouter ==
    \E c \in RegisterRouterCalls :
        RouterCommit("register_router", c.caller, c,
                     register_router(c.caller, c.chain_id, c.router_address))

\* no chain registry is configured, so its answer is never asked for
ExecuteMultiHopSwap ==
    \E m \in MultiHopCalls :
        RouterCommit("execute_multi_hop_swap", "sender", m,
                     execute_multi_hop_swap("sender", m.funds, m.routes, m.min_output,
                                            m.timeout_timestamp, now, None))

\* query_find_best_route: a query changes nothing; the model records the routes
\* the search found next to the answer of the query, and runs the search once
FindBestRoute ==
    \E q \in RouteQueries, order \in PoolOrders :
        LET found == find_best_routes(q.start_denom, q.end_denom, q.amount_in,
                                      q.max_hops, order)
            response == route_response(found, q.amount_in)
        IN
        /\ router_result' =
               [op |-> "find_best_route", caller |-> "", inp |-> [q |-> q, order |-> order],
                err |-> response.err,
                out |-> [found |-> found, response |-> response]]
        /\ UNCHANGED <<router_config, protocol_config, chain_configs, pool_registry,
                       pool_pairs, router_registry, ibc_channels, vaultVars, calc>>

RouterNext ==
    \/ RegisterPool
    \/ UpdatePoolInfo
    \/ RegisterRouter
    \/ ExecuteMultiHopSwap
    \/ FindBestRoute

SpecRouter == RouterInit /\ [][RouterNext]_vars

(***************************************************************************)
(* The route search on its own: pools of two and of four denominations     *)
(* are registered and find_best_routes is called, under the default        *)
(* exploration ceiling and under the smallest one the configuration allows *)
(***************************************************************************)
SearchNext ==
    \/ \E pool_info \in { PoolAtomOsmo(1), PoolOsmoUsdc(2), PoolMulti(MaxPoolId) } :
           RouterCommit("register_pool", ADMIN, [caller |-> ADMIN, pool_info |-> pool_info],
                        register_pool(ADMIN, pool_info))
    \/ \E q \in RouteQueries, order \in PoolOrders :
           LET st == SearchLoop(SearchStart(q.start_denom, q.amount_in), q.end_denom,
                                ClampMaxHops(q.max_hops), order)
               found == find_best_routes(q.start_denom, q.end_denom, q.amount_in,
                                         q.max_hops, order)
           IN
           /\ router_result' =
                  [op |-> "find_best_routes", caller |-> "", inp |-> [q |-> q, order |-> order],
                   err |-> found.err,
                   out |-> [found |-> found, enqueued |-> st.enqueued,
                            all_routes |-> st.all_routes]]
           /\ UNCHANGED <<router_config, protocol_config, chain_configs, pool_registry,
                          pool_pairs, router_registry, ibc_channels, vaultVars, calc>>

SpecSearch ==
    /\ instantiate(ADMIN)
    /\ now = 0
    /\ emitted = [id \in Ids |-> <<>>]
    /\ locked = << >>
    /\ result = NoCall
    /\ \E ceiling \in {1, MAX_ROUTES_TO_EXPLORE} :
          router_instantiate(ADMIN,
              [DefaultInstantiateMsg EXCEPT
                  !.protocol_config =
                      Some([DefaultProtocolConfig EXCEPT
                                !.routing.max_routes_to_explore = ceiling])])
    /\ ibc_channels = <<>>
    /\ router_result = NoRouterCall
    /\ calc = NoCalc
    /\ [][SearchNext]_vars

(***************************************************************************)
(* The channel handshake of the router as actions                          *)
(***************************************************************************)
\* the channels the host proposes
Channels ==
    LET IbcChannel(channel_id, order, version) ==
            [endpoint |-> [port_id |-> "wasm.router", channel_id |-> channel_id],
             order |-> order, version |-> version, connection_id |-> "connection-0"]
    IN  { IbcChannel(c, o, IBC_VERSION) : c \in {"channel-0", "channel-1"},
                                          o \in {"Unordered", "Ordered"} }
        \cup { IbcChannel("channel-0", "Unordered", "ics20-1") }

\* the counterparty version of a handshake step: absent (OpenInit, OpenConfirm),
\* the local version, and versions that differ from it
CounterpartyVersions ==
    { None, Some(IBC_VERSION), Some("ics20-1"), Some("fusion-router-v2"),
      Some("Fusion-Router-v1") }

IbcCommit(op, channel, counterparty_version, r) ==
    /\ ibc_channels' = r.ibc_channels
    /\ router_result' = [op |-> op, caller |-> "",
                         inp |-> [channel |-> channel,
                                  counterparty_version |-> counterparty_version],
                         err |-> r.err, out |-> r.version]
    /\ UNCHANGED <<router_config, protocol_config, chain_configs, pool_registry,
                   pool_pairs, router_registry, vaultVars, calc>>

IbcChannelOpen ==
    \E channel \in Channels, v \in CounterpartyVersions :
        IbcCommit("ibc_channel_open", channel, v, ibc_channel_open(channel, v))

IbcChannelConnect ==
    /\ Len(ibc_channels) < MaxChannels
    /\ \E channel \in Channels, v \in CounterpartyVersions :
           IbcCommit("ibc_channel_connect", channel, v, ibc_channel_connect(channel, v))

IbcChannelClose ==
    \E channel \in Channels :
        IbcCommit("ibc_channel_close", channel, None, ibc_channel_close(channel))

\* the sequence numbers and bytes of the packets the host delivers: packet data
\* without a memo; with the JSON
\* text of an instruction, terminal or forwarding, written in full or with the
\* options left out; with the memos this code writes (the memo of
\* build_hop_memo, the base64 memo of create_forward_msg and of the tests of
\* ibc.rs); the packet a forwarding relayer sends on; and bytes that are no
\* IbcPacketData
Packets ==
    LET last == [forward |-> None, min_output |-> Some(500), pool_id |-> 2,
                 token_out_denom |-> "ujuno"]
        Forward(next) == [channel |-> "channel-1", next |-> next, port |-> "transfer",
                          receiver |-> "juno1receiver", retries |-> 0, timeout |-> 300]
        Instruction(min_output, forward) ==
            [forward |-> forward, min_output |-> min_output, pool_id |-> 1,
             token_out_denom |-> "uosmo"]
        instructions ==
            { Instruction(Some(1000), None), Instruction(None, None),
              Instruction(Some(1000), Some(Forward(None))),
              Instruction(Some(1000), Some(Forward(Some(last)))),
              Instruction(None, Some(Forward(Some(last)))) }
        memos ==
            { Some(to_json(SwapInstructionJson(i))) : i \in instructions }
            \cup { None,
                   Some(to_json([pool_id |-> 1, token_out_denom |-> "uosmo"])),
                   Some(Binary_to_string(to_json(SwapInstructionJson(
                            Instruction(Some(1000), None))))),
                   Some(build_hop_memo(HopRoute("osmosis-1", 1, "uatom", "uosmo"), TRUE,
                                       100, <<>>, None).value) }
        PacketData(memo) == [amount |-> 2000, denom |-> "uatom", memo |-> memo,
                             receiver |-> "osmo1receiver", sender |-> "cosmos1sender"]
        data == { to_json(IbcPacketDataJson(PacketData(memo))) : memo \in memos }
                \cup { create_forward_msg(0, "osmo1receiver", "uosmo", 2000,
                                          Forward(Some(last))).data,
                       to_json([sender |-> "cosmos1sender"]),
                       Binary_to_string(to_json(IbcPacketDataJson(PacketData(None)))) }
    IN  { [data |-> d, sequence |-> s] : s \in {1, 12}, d \in data }

\* the end of a packet handler: none of them writes storage
PacketCommit(op, inp, r) ==
    /\ router_result' = [caller |-> "", err |-> r.err, inp |-> inp, op |-> op,
                         out |-> [ack |-> r.ack, attributes |-> r.attributes,
                                  messages |-> r.messages]]
    /\ UNCHANGED <<router_config, protocol_config, chain_configs, pool_registry,
                   pool_pairs, router_registry, ibc_channels, vaultVars, calc>>

\* the host delivers a packet, and the acknowledgement or the timeout of a
\* packet, on a channel that was connected; env.block.time of the receiving
\* chain is an input of the handler
IbcPacketReceive ==
    \E i \in 1..Len(ibc_channels), p \in Packets, time \in {0, 1700000000} :
        LET packet == [data |-> p.data, dest |-> ibc_channels[i].endpoint,
                       sequence |-> p.sequence]
        IN  PacketCommit("ibc_packet_receive", [packet |-> packet, time |-> time],
                         ibc_packet_receive(time, packet))

IbcPacketAck ==
    \E i \in 1..Len(ibc_channels), p \in Packets, success \in BOOLEAN :
        LET original_packet == [data |-> p.data, sequence |-> p.sequence,
                                src |-> ibc_channels[i].endpoint]
            acknowledgement == to_json([success |-> success])
        IN  PacketCommit("ibc_packet_ack",
                         [acknowledgement |-> acknowledgement, packet |-> original_packet],
                         ibc_packet_ack(original_packet, acknowledgement))

IbcPacketTimeout ==
    \E i \in 1..Len(ibc_channels), p \in Packets :
        LET packet == [data |-> p.data, sequence |-> p.sequence,
                       src |-> ibc_channels[i].endpoint]
        IN  PacketCommit("ibc_packet_timeout", [packet |-> packet],
                         ibc_packet_timeout(packet))

IbcNext ==
    \/ IbcChannelOpen
    \/ IbcChannelConnect
    \/ IbcChannelClose
    \/ IbcPacketReceive
    \/ IbcPacketAck
    \/ IbcPacketTimeout

SpecIbc == Init /\ [][IbcNext]_vars

(***************************************************************************)
(* The arithmetic of dex.rs and routing.rs, applied to drawn arguments     *)
(***************************************************************************)
\* estimates and tolerances: the cases of the tests of dex.rs, amounts that do
\* not divide evenly, the tolerances 0, 100% and beyond
CalculateMinOutputWithSlippage ==
    \E estimated_output \in {0, 1, 3, 999, 10000, 1000000},
       slippage_tolerance \in
           { DecimalPercent(n) : n \in {0, 1, 2, 5, 33, 50, 99, 100, 101, 150} }
           \cup { DecimalPermille(n) : n \in {1, 3, 995, 999, 1001} } :
        /\ calc' = [fn |-> "calculate_min_output_with_slippage",
                    inp |-> [estimated_output |-> estimated_output,
                             slippage_tolerance |-> slippage_tolerance],
                    out |-> calculate_min_output_with_slippage(estimated_output,
                                                               slippage_tolerance)]
        /\ UNCHANGED <<vaultVars, routerVars>>

\* constant-product pools: the reserves of the test of routing.rs, small and
\* lopsided reserves, fees of 0, 0.3% and 100%
CalculateSwapOutput ==
    \E balance_in \in {1, 3, 1000, 1000000, 2000000},
       balance_out \in {1, 3, 1000, 1000000, 2000000},
       amount_in \in {1, 2, 999, 1000, 100000},
       swap_fee \in {DecimalZero, DecimalPermille(3), DecimalOne} :
        LET pool_info == PoolInfo(1, "Balancer", <<"uatom", "uosmo">>,
                                  <<Coin(balance_in, "uatom"), Coin(balance_out, "uosmo")>>,
                                  swap_fee)
        IN
        /\ calc' = [fn |-> "calculate_swap_output",
                    inp |-> [pool_info |-> pool_info, token_in_denom |-> "uatom",
                             token_out_denom |-> "uosmo", amount_in |-> amount_in],
                    out |-> calculate_swap_output(pool_info, "uatom", "uosmo", amount_in)]
        /\ UNCHANGED <<vaultVars, routerVars>>

CalcNext ==
    \/ CalculateMinOutputWithSlippage
    \/ CalculateSwapOutput

SpecCalc == Init /\ [][CalcNext]_vars

(***************************************************************************)
(* Properties of the vault                                                 *)
(***************************************************************************)
IsCall(r, op) == r.op = op /\ r.id \in DOMAIN htlcs

\* the messages of one type emitted for a commitment so far
EmittedOfType(id, type) == SelectSeq(emitted[id], LAMBDA msg : msg.type = type)

\* C1: in every reachable state no commitment is both withdrawn and refunded.
C1_MutuallyExclusive ==
    \A id \in DOMAIN htlcs : ~(htlcs[id].withdrawn /\ htlcs[id].refunded)

\* a refund was tried on a withdrawn commitment, by its sender, after the timelock
C1_Witness ==
    /\ IsCall(result, "refund")
    /\ result.err = "AlreadyWithdrawn"
    /\ htlcs[result.id].withdrawn
    /\ result.caller = htlcs[result.id].sender
    /\ now >= htlcs[result.id].timelock

\* C2: for each commitment, withdraw and refund together emit at most one release
\* (bank transfer) message over the whole behaviour.
C2_AtMostOneRelease ==
    \A id \in Ids : Len(EmittedOfType(id, "bank_send")) <= 1

\* a commitment was released and a second release was then asked for
C2_Witness ==
    /\ IsCall(result, "withdraw")
    /\ result.err \in {"AlreadyWithdrawn", "AlreadyRefunded"}
    /\ Len(EmittedOfType(result.id, "bank_send")) = 1

\* a commitment on which neither withdraw nor refund has succeeded
Live(htlc) == ~htlc.withdrawn /\ ~htlc.refunded

\* hash(s) equals the hashlock: the secret is the hex spelling of a byte string
\* whose SHA-256 digest is the 256-bit value the hashlock spells
HashMatches(secret, hashlock) ==
    /\ ~HexDecodeIsErr(secret)
    /\ ~HexDecodeIsErr(hashlock)
    /\ Sha256(HexDecode(secret)) = HexDecode(hashlock)

\* C3: on a commitment that is neither withdrawn nor refunded, withdraw with a
\* (well-formed) secret s succeeds if and only if hash(s) equals the hashlock,
\* and fails with InvalidSecret otherwise; withdrawn becomes true only in a
\* withdraw whose secret hashes to the hashlock.
C3_HashlockSoundness ==
    [][ \A id \in DOMAIN htlcs :
          /\ ( /\ result'.op = "withdraw" /\ result'.id = id
               /\ Live(htlcs[id])
               /\ ~HexDecodeIsErr(result'.inp) )
             => /\ (result'.err = OK) <=> HashMatches(result'.inp, htlcs[id].hashlock)
                /\ ~HashMatches(result'.inp, htlcs[id].hashlock)
                      => result'.err = "InvalidSecret"
          /\ (~htlcs[id].withdrawn /\ htlcs'[id].withdrawn)
             => /\ result'.op = "withdraw" /\ result'.id = id /\ result'.err = OK
                /\ HashMatches(result'.inp, htlcs[id].hashlock)
      ]_vars

\* C4: refunded becomes true only in a refund call by the commitment's sender at
\* a block time >= the timelock.  On a commitment that is neither withdrawn nor
\* refunded, a refund by another caller fails with Unauthorized, a refund by the
\* sender before the timelock fails with TimelockNotExpired, and a refund by the
\* sender at or after the timelock succeeds and sets refunded.
C4_RefundGuard ==
    [][ \A id \in DOMAIN htlcs :
          /\ (~htlcs[id].refunded /\ htlcs'[id].refunded)
             => /\ result'.op = "refund" /\ result'.id = id /\ result'.err = OK
                /\ result'.caller = htlcs[id].sender
                /\ now >= htlcs[id].timelock
          /\ (result'.op = "refund" /\ result'.id = id /\ Live(htlcs[id]))
             => /\ result'.caller # htlcs[id].sender => result'.err = "Unauthorized"
                /\ (result'.caller = htlcs[id].sender /\ now < htlcs[id].timelock)
                      => result'.err = "TimelockNotExpired"
                /\ (result'.caller = htlcs[id].sender /\ now >= htlcs[id].timelock)
                      => (result'.err = OK /\ htlcs'[id].refunded)
      ]_vars

\* the sender's refund succeeded at the very second of the timelock
C4_Witness ==
    /\ IsCall(result, "refund")
    /\ result.err = OK
    /\ htlcs[result.id].refunded
    /\ result.caller = htlcs[result.id].sender
    /\ now = htlcs[result.id].timelock

\* C5: withdrawn, refunded and swap_executed are false in a commitment as it is
\* created, and once one of them is true it is true in every later state.
C5_WriteOnce ==
    [][ /\ \A id \in DOMAIN htlcs :
             /\ id \in DOMAIN htlcs'
             /\ htlcs[id].withdrawn => htlcs'[id].withdrawn
             /\ htlcs[id].refunded => htlcs'[id].refunded
             /\ htlcs[id].swap_executed => htlcs'[id].swap_executed
        /\ \A id \in (DOMAIN htlcs') \ (DOMAIN htlcs) :
             /\ ~htlcs'[id].withdrawn
             /\ ~htlcs'[id].refunded
             /\ ~htlcs'[id].swap_executed
      ]_vars

\* a swap was locked in on a commitment that was already withdrawn, and both
\* flags are still set after it
C5_Witness ==
    /\ IsCall(result, "execute_swap_and_lock")
    /\ result.err = OK
    /\ htlcs[result.id].withdrawn
    /\ htlcs[result.id].swap_executed

\* C6: withdraw on a withdrawn commitment fails with AlreadyWithdrawn and refund
\* on a refunded commitment fails with AlreadyRefunded; the failed call emits no
\* message and leaves the commitment (and the rest of the storage) unchanged.
C6_Idempotence ==
    [][ \A id \in DOMAIN htlcs :
          /\ (result'.op = "withdraw" /\ result'.id = id /\ htlcs[id].withdrawn)
             => /\ result'.err = "AlreadyWithdrawn"
                /\ result'.msgs = <<>>
                /\ UNCHANGED <<htlcs, htlc_count, config, emitted>>
          /\ (result'.op = "refund" /\ result'.id = id /\ htlcs[id].refunded)
             => /\ result'.err = "AlreadyRefunded"
                /\ result'.msgs = <<>>
                /\ UNCHANGED <<htlcs, htlc_count, config, emitted>>
      ]_vars

\* a refunded commitment was asked to refund again, by someone else than its sender
C6_Witness ==
    /\ IsCall(result, "refund")
    /\ result.err = "AlreadyRefunded"
    /\ htlcs[result.id].refunded
    /\ result.caller # htlcs[result.id].sender
    /\ Len(EmittedOfType(result.id, "bank_send")) = 1

CreateOps == {"create_htlc", "create_htlc_with_swap"}

\* swap parameters as the vault accepts them: routes, a positive minimum, at most 50%
SwapParamsValid(p) ==
    p.routes # <<>> /\ p.min_output_amount > 0 /\ 2 * p.slippage_tolerance <= DecimalOne

\* the checks a creation makes before it looks at the timelock all pass
ChecksBeforeTimelockPass(r) ==
    /\ AddrValid(r.inp.m.receiver)
    /\ r.inp.funds # <<>>
    /\ r.op = "create_htlc_with_swap" => SwapParamsValid(r.inp.swap_params)

\* every input of a creation other than the timelock is valid
OtherInputsValid(r) ==
    /\ ChecksBeforeTimelockPass(r)
    /\ r.inp.m.target_chain # ""
    /\ r.inp.m.target_address # ""
    /\ Len(r.inp.m.hashlock) = HASHLOCK_LENGTH
    /\ ~HexDecodeIsErr(r.inp.m.hashlock)
    /\ r.op = "create_htlc_with_swap"
          => /\ r.inp.estimate # QUERY_ERR
             /\ r.inp.estimate[1] >= r.inp.swap_params.min_output_amount

C8_ReleaseMessage ==
    /\ (IsCall(result, "withdraw") /\ result.err = OK)
       => result.msgs = << [type |-> "bank_send",
                            to_address |-> locked[result.id].receiver,
                            amount |-> locked[result.id].amount] >>
    /\ (IsCall(result, "refund") /\ result.err = OK)
       => result.msgs = << [type |-> "bank_send",
                            to_address |-> locked[result.id].sender,
                            amount |-> locked[result.id].amount] >>

\* a refund paid 250 uion back to the sender of a commitment created with a swap
C8_Witness ==
    /\ IsCall(result, "refund")
    /\ result.err = OK
    /\ locked[result.id].amount = Funds250
    /\ Len(result.msgs) = 1
    /\ result.msgs[1].to_address = "sender"
    /\ result.msgs[1].amount = Funds250

VaultOps == {"withdraw", "refund", "execute_swap_and_lock"}

\* C9: once withdrawn or refunded is true no operation succeeds on the
\* commitment or changes it (executeSwapAndLock included).
C9_TerminalIsFinal ==
    [][ \A id \in DOMAIN htlcs :
          (htlcs[id].withdrawn \/ htlcs[id].refunded)
          => /\ htlcs'[id] = htlcs[id]
             /\ (result'.op \in VaultOps /\ result'.id = id) => result'.err # OK
      ]_vars

\* C10: executeSwapAndLock succeeds only for the commitment's sender or the admin
\* and only while swap_executed is false; another caller fails with Unauthorized,
\* the sender or the admin on an executed swap fails with SwapAlreadyExecuted; at
\* most one swap message is ever emitted per commitment.
C10_SwapOnce ==
    /\ [](\A id \in Ids : Len(EmittedOfType(id, "swap_exact_amount_in")) <= 1)
    /\ [][ \A id \in DOMAIN htlcs :
             (result'.op = "execute_swap_and_lock" /\ result'.id = id)
             => LET authorized == result'.caller \in {htlcs[id].sender, config.admin}
                IN /\ result'.err = OK => (authorized /\ ~htlcs[id].swap_executed)
                   /\ ~authorized => result'.err = "Unauthorized"
                   /\ (authorized /\ htlcs[id].swap_executed)
                         => result'.err = "SwapAlreadyExecuted"
                   /\ result'.err # OK => result'.msgs = <<>>
         ]_vars

\* the admin asked for a second swap on a commitment whose swap had been executed
C10_Witness ==
    /\ IsCall(result, "execute_swap_and_lock")
    /\ result.err = "SwapAlreadyExecuted"
    /\ result.caller = config.admin
    /\ result.caller # htlcs[result.id].sender
    /\ Len(EmittedOfType(result.id, "swap_exact_amount_in")) = 1

(***************************************************************************)
(* Properties of the vault, continued                                      *)
(***************************************************************************)
AllVaultOps == CreateOps \cup VaultOps

\* C11: a call of create, createWithSwap, withdraw, refund or executeSwapAndLock
\* that returns an error leaves the persisted state as it was: the commitments,
\* the identifier counter and the configuration.
C11_ErrorLeavesState ==
    [][ (result'.op \in AllVaultOps /\ result'.err # OK)
          => (htlcs' = htlcs /\ htlc_count' = htlc_count /\ config' = config) ]_vars

\* a createWithSwap failed its last check, the one on the estimated output
C11_Witness ==
    /\ result.op = "create_htlc_with_swap"
    /\ result.err = "InsufficientOutputAmount"
    /\ htlcs = << >>
    /\ htlc_count = 0

\* C12: the commitments are those of the counter values 0 .. counter - 1, so the
\* counter is the number of commitments ever created; a successful creation
\* (create or createWithSwap) stores its commitment under the identifier of the
\* current counter value, which is new, advances the counter by one and leaves
\* the existing commitments as they were; no other step changes the counter or
\* the set of identifiers.
C12_Identifiers ==
    /\ [](/\ DOMAIN htlcs = { HtlcId(n) : n \in 0..(htlc_count - 1) }
          /\ Cardinality(DOMAIN htlcs) = htlc_count)
    /\ [][ IF result'.op \in CreateOps /\ result'.err = OK
           THEN /\ HtlcId(htlc_count) \notin DOMAIN htlcs
                /\ DOMAIN htlcs' = DOMAIN htlcs \cup {HtlcId(htlc_count)}
                /\ htlc_count' = htlc_count + 1
                /\ \A id \in DOMAIN htlcs : htlcs'[id] = htlcs[id]
           ELSE /\ htlc_count' = htlc_count
                /\ DOMAIN htlcs' = DOMAIN htlcs ]_vars

\* a createWithSwap was the second creation, after a create whose commitment has
\* been refunded since
C12_Witness ==
    /\ result.op = "create_htlc_with_swap"
    /\ result.err = OK
    /\ htlc_count = 2
    /\ htlcs[HtlcId(0)].swap_params = None
    /\ htlcs[HtlcId(0)].refunded
    /\ htlcs[HtlcId(1)].swap_params # None

\* C13: swap parameters are valid exactly when the route list is non-empty, the
\* minimum output is positive and the slippage tolerance is at most 50%.
\* createWithSwap and executeSwapAndLock called with invalid parameters fail and
\* change no commitment; with valid parameters they pass the validation:
\* createWithSwap succeeds when its other inputs are valid, executeSwapAndLock
\* when the caller is authorised and the commitment exists with no swap executed.
C13_SwapParamsValidated ==
    [][ /\ result'.op = "create_htlc_with_swap"
           => LET p == result'.inp.swap_params
                  tl == result'.inp.m.timelock
              IN /\ ~SwapParamsValid(p)
                    => (result'.err = "Std" /\ htlcs' = htlcs /\ htlc_count' = htlc_count)
                 /\ (/\ SwapParamsValid(p)
                     /\ OtherInputsValid(result')
                     /\ now < tl
                     /\ tl <= now + config.max_timelock_duration)
                    => /\ result'.err = OK
                       /\ htlcs'[result'.id].swap_params = Some(p)
        /\ result'.op = "execute_swap_and_lock"
           => LET p == result'.inp
              IN /\ ~SwapParamsValid(p) => (result'.err # OK /\ htlcs' = htlcs)
                 /\ (/\ result'.id \in DOMAIN htlcs
                     /\ result'.caller \in {htlcs[result'.id].sender, config.admin}
                     /\ ~htlcs[result'.id].swap_executed)
                    => (result'.err = OK <=> SwapParamsValid(p))
      ]_vars

\* a createWithSwap with a tolerance of exactly 50% stored its commitment, and an
\* executeSwapAndLock with a tolerance of 51% was turned away by the validation
C13_Witness ==
    /\ result.op = "execute_swap_and_lock"
    /\ result.err = "Std"
    /\ result.inp.slippage_tolerance = DecimalPercent(51)
    /\ result.id \in DOMAIN htlcs
    /\ result.caller = htlcs[result.id].sender
    /\ ~htlcs[result.id].swap_executed
    /\ htlcs[result.id].swap_params = Some(ParamsB)
    /\ ParamsB.slippage_tolerance = DecimalPercent(50)

(***************************************************************************)
(* Properties of the slippage computation                                  *)
(***************************************************************************)
\* the last computation was calculate_min_output_with_slippage(est, tol)
MinOutputOf(est, tol) ==
    /\ calc.fn = "calculate_min_output_with_slippage"
    /\ calc.inp.estimated_output = est
    /\ calc.inp.slippage_tolerance = tol

\* floor(est * keep / DECIMAL_FRACTIONAL), from the whole and the fractional
\* part of est / DECIMAL_FRACTIONAL
FloorOfShare(est, keep) ==
    (est \div DECIMAL_FRACTIONAL) * keep
        + (((est % DECIMAL_FRACTIONAL) * keep) \div DECIMAL_FRACTIONAL)

\* C14: for a tolerance s between 0 and 100% minOutputWithSlippage(estimate, s)
\* is floor(estimate * (1 - s)), never above the estimate: (10000, 5%) gives
\* 9500, (10000, 1%) gives 9900, (1000000, 2%) gives 980000 and 0% gives the
\* estimate itself; for a tolerance above 100% the function returns an error.
C14_MinOutputWithSlippage ==
    calc.fn = "calculate_min_output_with_slippage"
    => LET est == calc.inp.estimated_output
           tol == calc.inp.slippage_tolerance
       IN /\ tol > DecimalOne => calc.out.err # OK
          /\ tol <= DecimalOne
             => /\ calc.out.err = OK
                /\ calc.out.value = FloorOfShare(est, DecimalOne - tol)
                /\ calc.out.value <= est
          /\ tol = DecimalZero => calc.out.value = est
          /\ MinOutputOf(10000, DecimalPercent(5)) => calc.out.value = 9500
          /\ MinOutputOf(10000, DecimalPercent(1)) => calc.out.value = 9900
          /\ MinOutputOf(1000000, DecimalPercent(2)) => calc.out.value = 980000

\* 999 with a tolerance of 1% is 989.01, rounded down to 989
C14_Witness ==
    /\ MinOutputOf(999, DecimalPercent(1))
    /\ calc.out.err = OK
    /\ calc.out.value = 989

(***************************************************************************)
(* Properties of the router                                                *)
(***************************************************************************)
\* the last call was execute_multi_hop_swap and got as far as the estimate: the
\* timeout lies in the future, a route and a deposit were supplied
ReachedEstimate ==
    /\ router_result.op = "execute_multi_hop_swap"
    /\ router_result.inp.timeout_timestamp > now
    /\ router_result.inp.routes # <<>>
    /\ router_result.inp.funds # <<>>

\* the estimate of that call; the call changes no pool, so the registry is the
\* one the call read
EstimateOfCall ==
    estimate_multi_hop_swap(router_result.inp.routes, router_result.inp.funds[1].amount)

\* C15: an executeMultiHopSwap whose estimate of the supplied route for the
\* deposited amount is below minOutput fails with SlippageExceeded and emits no
\* relay packet (the estimate is made once the timeout, the route list and the
\* deposit have been looked at); a failed call emits nothing; every successful
\* call had an estimate >= minOutput against the pools of that same call.
C15_SlippageProtection ==
    router_result.op = "execute_multi_hop_swap"
    => /\ (ReachedEstimate /\ EstimateOfCall.err = OK
                           /\ EstimateOfCall.amount < router_result.inp.min_output)
          => (router_result.err = "SlippageExceeded" /\ router_result.out = <<>>)
       /\ router_result.err # OK => router_result.out = <<>>
       /\ router_result.err = OK
          => /\ ReachedEstimate
             /\ EstimateOfCall.err = OK
             /\ EstimateOfCall.amount >= router_result.inp.min_output
             /\ router_result.out # <<>>

\* a two-hop route over registered pools was estimated below the minimum
C15_Witness ==
    /\ ReachedEstimate
    /\ Len(router_result.inp.routes) = 2
    /\ EstimateOfCall.err = OK
    /\ EstimateOfCall.amount > 0
    /\ EstimateOfCall.amount < router_result.inp.min_output
    /\ router_result.err = "SlippageExceeded"
    /\ router_result.out = <<>>

\* the routes the last FindBestRoute search returned
FoundRoutes == router_result.out.found.routes

\* C16: findBestRoutes returns at most 5 routes, sorted by non-increasing final
\* output amount, whatever the pools, the denominations, the amount and maxHops.
C16_RoutesSortedAndTruncated ==
    router_result.op = "find_best_route"
    => /\ Len(FoundRoutes) <= 5
       /\ \A i, j \in 1..Len(FoundRoutes) :
              i < j => FoundRoutes[i].amount >= FoundRoutes[j].amount
       /\ router_result.out.found.err # OK => FoundRoutes = <<>>

\* five routes came back, the best of them strictly better than the last, the
\* best one through the pool that the search visited last
C16_Witness ==
    /\ router_result.op = "find_best_route"
    /\ router_result.out.found.err = OK
    /\ Len(FoundRoutes) = 5
    /\ FoundRoutes[1].amount > FoundRoutes[5].amount
    /\ FoundRoutes[1].path[1].pool_id = router_result.inp.order[MaxPoolId]

\* C17: no path returned by findBestRoutes has more edges than the smaller of
\* the requested maxHops and the configured maximum; with maxHops omitted the
\* configured maximum is the bound.
C17_HopBound ==
    router_result.op = "find_best_route"
    => LET requested == router_result.inp.q.max_hops
           configured == protocol_config.routing.max_hops
           bound == IF requested = None THEN configured
                    ELSE IF requested[1] < configured THEN requested[1] ELSE configured
       IN \A i \in 1..Len(FoundRoutes) : Len(FoundRoutes[i].path) <= bound

\* two hops were asked for where four are configured, and a route of exactly two
\* hops came back
C17_Witness ==
    /\ router_result.op = "find_best_route"
    /\ router_result.inp.q.max_hops = Some(2)
    /\ protocol_config.routing.max_hops = MAX_HOPS
    /\ FoundRoutes # <<>>
    /\ Len(FoundRoutes[1].path) = 2
    /\ FoundRoutes[1].path[1].token_out_denom = FoundRoutes[1].path[2].token_in_denom

\* the denominations two of which a registered pool lists together
KnownDenoms ==
    UNION { { pool_registry[id].token_denoms[i] :
                i \in 1..Len(pool_registry[id].token_denoms) } : id \in DOMAIN pool_registry }

Linked(a, b) ==
    /\ a # b
    /\ \E id \in DOMAIN pool_registry :
          \E i, j \in 1..Len(pool_registry[id].token_denoms) :
              /\ pool_registry[id].token_denoms[i] = a
              /\ pool_registry[id].token_denoms[j] = b

\* the denominations that at most k pools in a row lead to
RECURSIVE ReachableWithin(_, _)
ReachableWithin(start, k) ==
    IF k = 0 THEN {start}
    ELSE LET near == ReachableWithin(start, k - 1)
         IN  near \cup { d \in KnownDenoms : \E a \in near : Linked(a, d) }

PathExists(start, end, k) == start # end /\ end \in ReachableWithin(start, k)

\* C18: when the known pools hold no path from the start to the end denomination
\* within maxHops, findBestRoutes returns an empty list, not an error, and the
\* findBestRoute query answers with no routes and zero output, fees and impact.
C18_NoPathIsEmpty ==
    (/\ router_result.op = "find_best_route"
     /\ router_result.inp.q.start_denom # router_result.inp.q.end_denom
     /\ ~PathExists(router_result.inp.q.start_denom, router_result.inp.q.end_denom,
                    ClampMaxHops(router_result.inp.q.max_hops)))
    => /\ router_result.out.found = Routes(OK, <<>>)
       /\ router_result.out.response
              = RouteResponse(OK, <<>>, 0, DecimalZero, DecimalZero)

(***************************************************************************)
(* Properties of the swap estimate                                         *)
(***************************************************************************)
\* a * b in three digits of base 10000, the highest first, for a, b < 10^7
ProductLimbs(a, b) ==
    LET base == 10000
        lo == (a % base) * (b % base)
        mid == (a \div base) * (b % base) + (a % base) * (b \div base) + (lo \div base)
        hi == (a \div base) * (b \div base) + (mid \div base)
    IN  <<hi, mid % base, lo % base>>

\* a * b <= c * d
ProductLeq(a, b, c, d) ==
    LET x == ProductLimbs(a, b)
        y == ProductLimbs(c, d)
    IN  \/ x[1] < y[1]
        \/ x[1] = y[1] /\ x[2] < y[2]
        \/ x[1] = y[1] /\ x[2] = y[2] /\ x[3] <= y[3]

\* the reserve of a denomination in the pool of the last estimate
ReserveOf(denom) == FindCoin(calc.inp.pool_info.liquidity, denom)[1].amount

\* C19: a constant-product pool with reserves 1,000,000 / 2,000,000 and a fee of
\* 0.3% gives for an input of 100,000 an output strictly between 150,000 and
\* 200,000 and reports a fee rate of 0.3%; for positive reserves and a positive
\* input the output is strictly less than the reserve of the output token and
\* at most the spot-price output amountIn * balanceOut / balanceIn.
C19_ConstantProduct ==
    (/\ calc.fn = "calculate_swap_output"
     /\ calc.inp.pool_info.pool_type = "Balancer"
     /\ calc.inp.pool_info.swap_fee <= DecimalOne)
    => LET balance_in == ReserveOf(calc.inp.token_in_denom)
           balance_out == ReserveOf(calc.inp.token_out_denom)
           amount_in == calc.inp.amount_in
       IN /\ calc.out.err = OK
          /\ calc.out.fee = calc.inp.pool_info.swap_fee
          /\ (/\ balance_in = 1000000 /\ balance_out = 2000000 /\ amount_in = 100000
              /\ calc.inp.pool_info.swap_fee = DecimalPermille(3))
             => /\ calc.out.amount > 150000
                /\ calc.out.amount < 200000
                /\ calc.out.fee = DecimalPermille(3)
          /\ calc.out.amount < balance_out
          /\ ProductLeq(calc.out.amount, balance_in, amount_in, balance_out)

(***************************************************************************)
(* Properties of the channel handshake                                     *)
(***************************************************************************)
HandshakeOps == {"ibc_channel_open", "ibc_channel_connect"}

\* what the two statements of C20 share: an ordering other than unordered is
\* turned away with InvalidIbcChannelOrder, a counterparty version string other
\* than the local one with InvalidIbcVersion, and a rejected step records nothing
RejectsOrderAndVersion(r, channels_before, channels_after) ==
    /\ r.inp.channel.order # "Unordered" => r.err = "InvalidIbcChannelOrder"
    /\ (/\ r.inp.channel.order = "Unordered"
        /\ r.inp.counterparty_version # None
        /\ r.inp.counterparty_version[1] # IBC_VERSION)
       => r.err = "InvalidIbcVersion"
    /\ r.err # OK => channels_after = channels_before

\* C20 as stated: channel open and connect turn away an ordering that is not
\* unordered with InvalidChannelOrder and a counterparty version string that is
\* not exactly the local version with InvalidVersion, a rejected handshake
\* records nothing, and only a handshake with unordered delivery and an exactly
\* matching version is accepted.
C20_OnlyMatchingVersionAccepted ==
    [][ router_result'.op \in HandshakeOps
        => /\ RejectsOrderAndVersion(router_result', ibc_channels, ibc_channels')
           /\ router_result'.err = OK
              => /\ router_result'.inp.channel.order = "Unordered"
                 /\ router_result'.inp.counterparty_version = Some(IBC_VERSION)
      ]_vars

\* C20, amended: channel open and connect turn away an ordering that is not
\* unordered with InvalidChannelOrder and a counterparty version string that is
\* not exactly the local version with InvalidVersion, a rejected handshake
\* records nothing, and a handshake is accepted exactly when delivery is
\* unordered and the counterparty version, where the step carries one, matches
\* exactly.
C20_HandshakeValidation ==
    [][ router_result'.op \in HandshakeOps
        => /\ RejectsOrderAndVersion(router_result', ibc_channels, ibc_channels')
           /\ router_result'.err = OK
              <=> /\ router_result'.inp.channel.order = "Unordered"
                  /\ router_result'.inp.counterparty_version \in {None, Some(IBC_VERSION)}
      ]_vars

\* a connect step that carries no counterparty version was accepted and its
\* channel recorded, after a channel had been recorded already
C20_Witness ==
    /\ router_result.op = "ibc_channel_connect"
    /\ router_result.err = OK
    /\ router_result.inp.counterparty_version = None
    /\ router_result.inp.channel.order = "Unordered"
    /\ Len(ibc_channels) = 2
    /\ ibc_channels[2] = router_result.inp.channel

(***************************************************************************)
(* Properties of the channel registry                                      *)
(***************************************************************************)
\* the ids of the channels IBC_CHANNELS holds
ActiveChannelIds == { ibc_channels[i].endpoint.channel_id : i \in 1..Len(ibc_channels) }

\* how many records IBC_CHANNELS holds for a channel id
RecordsOf(channels, id) ==
    Cardinality({ i \in 1..Len(channels) : channels[i].endpoint.channel_id = id })

\* C21: after any sequence of connect and close events a channel id is in the
\* active set exactly when its latest lifecycle event was an accepted connect,
\* it is recorded at most once, every recorded channel is unordered, and a close
\* removes its channel completely and leaves the other channels as they were.
C21_ChannelRegistry ==
    /\ [](\A i \in 1..Len(ibc_channels) :
            /\ ibc_channels[i].order = "Unordered"
            /\ RecordsOf(ibc_channels, ibc_channels[i].endpoint.channel_id) = 1)
    /\ [][ LET id == router_result'.inp.channel.endpoint.channel_id
               Others(channels) ==
                   SelectSeq(channels, LAMBDA c : c.endpoint.channel_id # id)
           IN
           /\ (router_result'.op = "ibc_channel_connect" /\ router_result'.err = OK)
              => /\ RecordsOf(ibc_channels', id) = 1
                 /\ Others(ibc_channels') = Others(ibc_channels)
           /\ router_result'.op = "ibc_channel_close"
              => /\ RecordsOf(ibc_channels', id) = 0
                 /\ ibc_channels' = Others(ibc_channels)
           /\ (router_result'.op \notin {"ibc_channel_connect", "ibc_channel_close"}
               \/ router_result'.err # OK)
              => ibc_channels' = ibc_channels
         ]_vars

(***************************************************************************)
(* Properties of the relay                                                 *)
(***************************************************************************)
\* the messages the last call emitted
EmittedMessages ==
    IF router_result.err # OK THEN <<>>
    ELSE IF router_result.op = "execute_multi_hop_swap" THEN router_result.out
    ELSE IF router_result.op = "ibc_packet_receive" THEN router_result.out.messages
    ELSE <<>>

\* the relay packets among them
RelayPackets == SelectSeq(EmittedMessages, LAMBDA msg : msg.type = "IbcMsg::SendPacket")

\* C22: a relay packet, of executeMultiHopSwap or of a forwarding packet
\* receive, is emitted on a channel only if that channel is in the active
\* channel set at that moment.
C22_RelayOnActiveChannel ==
    \A i \in 1..Len(RelayPackets) : RelayPackets[i].channel_id \in ActiveChannelIds

\* C23: every packet receive ends with an acknowledgment {success: bool} set:
\* for every inbound packet, with or without an instruction, decodable or not,
\* the handler finishes with an acknowledgment rather than aborting without one.
C23_ReceiveAcknowledges ==
    router_result.op = "ibc_packet_receive"
    => /\ router_result.err = OK
       /\ router_result.out.ack # None
       /\ router_result.out.ack[1].format = "json"
       /\ DOMAIN router_result.out.ack[1].doc = {"success"}
       /\ router_result.out.ack[1].doc.success \in BOOLEAN

C25_OnlyFirstHopPacket ==
    (router_result.op = "execute_multi_hop_swap" /\ router_result.err = OK)
    => /\ Len(RelayPackets) = 1
       /\ LET data == from_json_IbcPacketData(RelayPackets[1].data).value IN
          /\ data.denom = router_result.inp.funds[1].denom
          /\ data.amount = router_result.inp.funds[1].amount

\* the instruction of the packet the last packet receive was given, as the
\* handler decodes it
ReceivedData == from_json_IbcPacketData(router_result.inp.packet.data).value
ReceivedInstruction == from_json_SwapInstruction(ReceivedData.memo[1]).value

\* the last call was a packet receive that decoded an instruction and succeeded
ReceivedWithInstruction ==
    /\ router_result.op = "ibc_packet_receive"
    /\ router_result.err = OK
    /\ ReceivedData.memo # None

\* the transfers of the last call to an address
TransfersTo(address) ==
    SelectSeq(EmittedMessages,
              LAMBDA msg : msg.type = "BankMsg::Send" /\ msg.to_address = address)

\* C26: on a packet receive with an instruction the relayer does exactly one of
\* two things with the output of the hop: with forward present it emits the
\* next relay packet and makes no settlement transfer to the receiver of the
\* message; with forward absent it settles the output to the receiver and emits
\* no relay packet. It never both settles and forwards.
C26_SettleOrForward ==
    ReceivedWithInstruction
    => IF ReceivedInstruction.forward # None
       THEN /\ Len(RelayPackets) = 1
            /\ TransfersTo(ReceivedData.receiver) = <<>>
       ELSE /\ Len(TransfersTo(ReceivedData.receiver)) = 1
            /\ RelayPackets = <<>>

\* the output of the hop of the last packet receive: what the message standing
\* for the swap pays out
HopOutput ==
    LET swap_msg == SelectSeq(EmittedMessages, LAMBDA msg : msg.type = "BankMsg::Send")[1]
    IN  swap_msg.amount[1].amount

\* C27: when a received instruction carries forward, the next relay message has
\* the swap output of this hop as its amount, in the denomination denomOut, the
\* receiver forward.receiver and the instruction forward.next, and is sent over
\* forward.channel with the timeout block time + forward.timeoutOffset.
C27_ForwardMessage ==
    (ReceivedWithInstruction /\ ReceivedInstruction.forward # None)
    => LET forward == ReceivedInstruction.forward[1]
           next_data == from_json_IbcPacketData(RelayPackets[1].data)
       IN
       /\ Len(RelayPackets) = 1
       /\ RelayPackets[1].channel_id = forward.channel
       /\ RelayPackets[1].timeout = router_result.inp.time + forward.timeout
       /\ next_data.err = OK
       /\ next_data.value.amount = HopOutput
       /\ next_data.value.denom = ReceivedInstruction.token_out_denom
       /\ next_data.value.receiver = forward.receiver
       /\ IF forward.next = None THEN next_data.value.memo = None
          ELSE /\ next_data.value.memo # None
               /\ from_json_SwapInstruction(next_data.value.memo[1]).err = OK
               /\ from_json_SwapInstruction(next_data.value.memo[1]).value = forward.next[1]

\* the instruction the sending side encoded into its i-th relay packet: the hop
\* of the route for executeMultiHopSwap, forward.next for a forwarding relayer
EncodedInstruction(i) ==
    IF router_result.op = "execute_multi_hop_swap"
    THEN LET routes == router_result.inp.routes IN
         [pool_id |-> routes[i].pool_id,
          token_out_denom |-> routes[i].token_out_denom,
          min_output |-> IF i = Len(routes) THEN Some(router_result.inp.min_output)
                         ELSE None,
          has_forward |-> i < Len(routes)]
    ELSE LET next == ReceivedInstruction.forward[1].next[1] IN
         [pool_id |-> next.pool_id, token_out_denom |-> next.token_out_denom,
          min_output |-> next.min_output, has_forward |-> next.forward # None]

\* C28: every instruction string that the sending side places in a relay
\* message, the memo of the instruction builder of executeMultiHopSwap and the
\* next-hop memo of a forwarding relayer, is decoded by the packet receive
\* handler of the receiving relayer into an instruction with the same poolId,
\* denomOut, minOutput and forward.
C28_WireRoundTrip ==
    \A i \in 1..Len(RelayPackets) :
        LET data == from_json_IbcPacketData(RelayPackets[i].data)
            decoded == from_json_SwapInstruction(data.value.memo[1])
        IN  /\ data.err = OK
            /\ data.value.memo # None
               => /\ decoded.err = OK
                  /\ decoded.value.pool_id = EncodedInstruction(i).pool_id
                  /\ decoded.value.token_out_denom = EncodedInstruction(i).token_out_denom
                  /\ decoded.value.min_output = EncodedInstruction(i).min_output
                  /\ (decoded.value.forward # None) = EncodedInstruction(i).has_forward
                  /\ router_result.op = "ibc_packet_receive"
                     => decoded.value.forward
                            = ReceivedInstruction.forward[1].next[1].forward

(***************************************************************************)
(* Properties of the instruction builder                                   *)
(***************************************************************************)
\* the last call was an executeMultiHopSwap that built its messages
BuiltInstructions ==
    /\ router_result.op = "execute_multi_hop_swap"
    /\ router_result.err = OK

\* the memo document the builder wrote into its i-th relay packet
BuiltMemo(i) == from_json_IbcPacketData(RelayPackets[i].data).value.memo[1].doc

\* how deep a memo document nests through forward.next
RECURSIVE MemoDepth(_)
MemoDepth(doc) ==
    IF doc.forward # None /\ doc.forward[1].next # None
    THEN 1 + MemoDepth(doc.forward[1].next[1])
    ELSE 1

\* C29: the instruction built for a route of k hops is right-nested to depth
\* exactly k, the forward.next of every hop but the last holding the
\* instruction of the hop that follows, and k never exceeds maxHops.
C29_NestedToDepthK ==
    BuiltInstructions
    => /\ MemoDepth(BuiltMemo(1)) = Len(router_result.inp.routes)
       /\ Len(router_result.inp.routes) <= protocol_config.routing.max_hops

\* C30: in every chain of instructions the builder produces, minOutput is
\* present on the instruction of the last hop and on no other, and forward is
\* absent on the instruction of the last hop and present on every other.
C30_MinOutputLastForwardElsewhere ==
    BuiltInstructions
    => /\ Len(RelayPackets) = Len(router_result.inp.routes)
       /\ \A i \in 1..Len(RelayPackets) :
            /\ BuiltMemo(i).swap.pool_id = router_result.inp.routes[i].pool_id
            /\ (BuiltMemo(i).swap.min_output # None) <=> (i = Len(RelayPackets))
            /\ (BuiltMemo(i).forward # None) <=> (i < Len(RelayPackets))
            /\ i = Len(RelayPackets)
               => Uint128_from_str(BuiltMemo(i).swap.min_output[1])
                      = router_result.inp.min_output

\* the instructions of a route of two hops were built
C30_Witness ==
    /\ BuiltInstructions
    /\ Len(router_result.inp.routes) = 2
    /\ Len(RelayPackets) = 2
    /\ BuiltMemo(1).forward # None
    /\ BuiltMemo(1).swap.min_output = None
    /\ BuiltMemo(2).forward = None
    /\ BuiltMemo(2).swap.min_output = Some(<<1, 0, 0>>)

(***************************************************************************)
(* Properties of the routed execution, of custody and of the route search  *)
(***************************************************************************)
\* C31: a request to execute a route with more hops than the configured
\* maximum is rejected by executeMultiHopSwap with an error (whichever routing
\* error the call meets first) and emits no relay packet.
C31_TooManyHopsRejected ==
    (/\ router_result.op = "execute_multi_hop_swap"
     /\ Len(router_result.inp.routes) > protocol_config.routing.max_hops)
    => /\ router_result.err # OK
       /\ RelayPackets = <<>>

\* the coins a message of the vault takes out of the vault's balance: the
\* coins a bank transfer sends, the input coin of a swap
CoinsSpent(msg) ==
    IF msg.type = "bank_send" THEN msg.amount
    ELSE IF msg.type = "swap_exact_amount_in" THEN <<msg.token_in>>
    ELSE <<>>

\* the amount of one denomination in a list of coins
RECURSIVE AmountOf(_, _)
AmountOf(coins, denom) ==
    IF coins = <<>> THEN 0
    ELSE (IF Head(coins).denom = denom THEN Head(coins).amount ELSE 0)
         + AmountOf(Tail(coins), denom)

\* the amount of one denomination the messages of a list spend together
RECURSIVE TotalSpent(_, _)
TotalSpent(msgs, denom) ==
    IF msgs = <<>> THEN 0
    ELSE AmountOf(CoinsSpent(Head(msgs)), denom) + TotalSpent(Tail(msgs), denom)

\* C32: custody conservation: for each commitment, the messages the vault has
\* emitted for it (the swap input of executeSwapAndLock and the release of
\* withdraw or refund) spend of each locked coin no more than was locked at
\* creation.
C32_CustodyConservation ==
    \A id \in DOMAIN locked :
        \A i \in 1..Len(locked[id].amount) :
            TotalSpent(emitted[id], locked[id].amount[i].denom)
                <= AmountOf(locked[id].amount, locked[id].amount[i].denom)

\* C33: withdraw has no timelock precondition: on a commitment that is neither
\* withdrawn nor refunded and whose timelock has expired, a withdraw with a
\* secret that hashes to the hashlock succeeds and a refund by the sender
\* succeeds, whichever is executed first; the other then fails with
\* AlreadyWithdrawn (refund) or AlreadyRefunded (withdraw).
C33_WithdrawRefundRace ==
    [][ \A id \in DOMAIN htlcs :
          LET htlc == htlcs[id] IN
          /\ (Live(htlc) /\ now >= htlc.timelock /\ result'.id = id)
             => /\ (result'.op = "withdraw" /\ HashMatches(result'.inp, htlc.hashlock))
                   => (result'.err = OK /\ htlcs'[id].withdrawn)
                /\ (result'.op = "refund" /\ result'.caller = htlc.sender)
                   => (result'.err = OK /\ htlcs'[id].refunded)
          /\ (htlc.withdrawn /\ result'.op = "refund" /\ result'.id = id)
             => result'.err = "AlreadyWithdrawn"
          /\ (htlc.refunded /\ result'.op = "withdraw" /\ result'.id = id)
             => result'.err = "AlreadyRefunded"
      ]_vars

Enqueued == Tail(router_result.out.enqueued)
Recorded == router_result.out.all_routes

\* the denominations a path visits, from the start denomination on
DenomsOnPath(start_denom, path) ==
    <<start_denom>> \o [i \in 1..Len(path) |-> path[i].token_out_denom]

\* a sequence without a repeated element
NoRepeat(s) == \A i, j \in 1..Len(s) : i # j => s[i] # s[j]

\* C35: cycle freedom: in one findBestRoutes call no denomination is enqueued
\* more than once, and no enqueued candidate and no recorded or returned path
\* visits a denomination twice, whatever the configured exploration ceiling.
C35_CycleFreedom ==
    router_result.op = "find_best_routes"
    => LET start_denom == router_result.inp.q.start_denom IN
       /\ NoRepeat([i \in 1..Len(Enqueued) |-> Enqueued[i].denom])
       /\ \A i \in 1..Len(Enqueued) : NoRepeat(DenomsOnPath(start_denom, Enqueued[i].path))
       /\ \A i \in 1..Len(Recorded) : NoRepeat(DenomsOnPath(start_denom, Recorded[i].path))
       /\ \A i \in 1..Len(FoundRoutes) :
              NoRepeat(DenomsOnPath(start_denom, FoundRoutes[i].path))

\* C36: bounded exploration: in one findBestRoutes call the candidates
\* explored, the nodes enqueued after the start node together with the routes
\* recorded, are never more than the configured max_routes_to_explore (the
\* search has terminated in every state that holds its result).
C36_BoundedExploration ==
    router_result.op = "find_best_routes"
    => Len(Enqueued) + Len(Recorded) <= protocol_config.routing.max_routes_to_explore

\* the sum of the swap fee rates of the pools of a path
RECURSIVE SumOfFeeRates(_)
SumOfFeeRates(path) ==
    IF path = <<>> THEN DecimalZero
    ELSE pool_registry[Head(path).pool_id].swap_fee + SumOfFeeRates(Tail(path))

\* C37: search and estimator agree: every route findBestRoutes returns starts
\* at the start denomination, ends at the end denomination, each hop taking
\* what the hop before gave, and estimateMultiHop of its path and the same
\* amount over the same pools returns exactly the route's amount and exactly
\* its accumulated fee, the sum of the fee rates of its hops.
C37_SearchAgreesWithEstimator ==
    (router_result.op = "find_best_routes" /\ router_result.out.found.err = OK)
    => \A i \in 1..Len(FoundRoutes) :
          LET route == FoundRoutes[i]
              q == router_result.inp.q
              estimate == estimate_multi_hop_swap(route.path, q.amount_in)
          IN
          /\ route.path # <<>>
          /\ route.path[1].token_in_denom = q.start_denom
          /\ route.path[Len(route.path)].token_out_denom = q.end_denom
          /\ route.denom = q.end_denom
          /\ \A k \in 1..(Len(route.path) - 1) :
                 route.path[k].token_out_denom = route.path[k + 1].token_in_denom
          /\ estimate.err = OK
          /\ estimate.amount = route.amount
          /\ estimate.fee = route.total_fee
          /\ route.total_fee = SumOfFeeRates(route.path)

\* a route of three hops through pools of two kinds came back, its amount
\* differing from the amount put in
C37_Witness ==
    /\ router_result.op = "find_best_routes"
    /\ router_result.out.found.err = OK
    /\ \E i \in 1..Len(FoundRoutes) :
          /\ Len(FoundRoutes[i].path) = 3
          /\ FoundRoutes[i].path[1].pool_id # FoundRoutes[i].path[2].pool_id
          /\ FoundRoutes[i].amount # router_result.inp.q.amount_in
          /\ FoundRoutes[i].amount > 0
          /\ estimate_multi_hop_swap(FoundRoutes[i].path, router_result.inp.q.amount_in).amount
                 = FoundRoutes[i].amount

\* the hops the known pools offer out of a denomination
HopsFrom(denom) ==
    { HopRoute(pool_registry[p].chain_id, p, denom, pool_registry[p].token_denoms[j]) :
        <<p, j>> \in { <<p, j>> \in (DOMAIN pool_registry) \X (1..4) :
                         /\ j <= Len(pool_registry[p].token_denoms)
                         /\ pool_registry[p].token_denoms[j] # denom
                         /\ \E i \in 1..Len(pool_registry[p].token_denoms) :
                                pool_registry[p].token_denoms[i] = denom } }

\* the cycle-free paths of at most k hops from a denomination to end_denom
\* that visit no denomination of seen
RECURSIVE CycleFreePaths(_, _, _, _)
CycleFreePaths(denom, end_denom, seen, k) ==
    IF denom = end_denom THEN { <<>> }
    ELSE IF k = 0 THEN {}
    ELSE UNION { { <<hop>> \o rest :
                     rest \in CycleFreePaths(hop.token_out_denom, end_denom,
                                             seen \cup {hop.token_out_denom}, k - 1) } :
                 hop \in { h \in HopsFrom(denom) : h.token_out_denom \notin seen } }

\* C38: best route: whenever a cycle-free path of at most maxHops hops leads
\* from the start to the end denomination over the known pools, findBestRoutes
\* returns a first route, and its output is the largest estimated output among
\* all those paths.
C38_BestRouteFirst ==
    router_result.op = "find_best_routes"
    => LET q == router_result.inp.q
           paths == CycleFreePaths(q.start_denom, q.end_denom, {q.start_denom},
                                   ClampMaxHops(q.max_hops))
       IN  (q.start_denom # q.end_denom /\ paths # {})
           => /\ router_result.out.found.err = OK
              /\ FoundRoutes # <<>>
              /\ \A path \in paths :
                     estimate_multi_hop_swap(path, q.amount_in).err = OK
                     => FoundRoutes[1].amount
                            >= estimate_multi_hop_swap(path, q.amount_in).amount

\* the fields of a commitment that are fixed at its creation
Terms(htlc) ==
    [sender |-> htlc.sender, receiver |-> htlc.receiver, amount |-> htlc.amount,
     hashlock |-> htlc.hashlock, timelock |-> htlc.timelock,
     target_chain |-> htlc.target_chain, target_address |-> htlc.target_address]

\* C39: frame: withdraw, refund and executeSwapAndLock on a commitment never
\* change its sender, receiver, locked amount, hashlock, timelock, target chain
\* or target address, never change a field of another commitment, and never
\* change the id counter or the set of commitments; withdraw changes only
\* withdrawn, refund only refunded, executeSwapAndLock only swapExecuted and
\* swapParams.
C39_Frame ==
    [][ result'.op \in {"withdraw", "refund", "execute_swap_and_lock"}
        => /\ htlc_count' = htlc_count
           /\ DOMAIN htlcs' = DOMAIN htlcs
           /\ \A id \in DOMAIN htlcs :
                /\ id # result'.id => htlcs'[id] = htlcs[id]
                /\ Terms(htlcs'[id]) = Terms(htlcs[id])
                /\ result'.op = "withdraw"
                   => htlcs'[id] = [htlcs[id] EXCEPT !.withdrawn = htlcs'[id].withdrawn]
                /\ result'.op = "refund"
                   => htlcs'[id] = [htlcs[id] EXCEPT !.refunded = htlcs'[id].refunded]
                /\ result'.op = "execute_swap_and_lock"
                   => htlcs'[id] = [htlcs[id] EXCEPT
                                       !.swap_executed = htlcs'[id].swap_executed,
                                       !.swap_params = htlcs'[id].swap_params]
      ]_vars

\* the swap of the second commitment was executed with new parameters while
\* the first commitment, already withdrawn, stood beside it
C39_Witness ==
    /\ IsCall(result, "execute_swap_and_lock")
    /\ result.err = OK
    /\ result.id = HtlcId(1)
    /\ htlcs[HtlcId(1)].swap_executed
    /\ htlcs[HtlcId(1)].swap_params = Some(ParamsA)
    /\ locked[HtlcId(1)].amount = Funds250
    /\ htlcs[HtlcId(0)].withdrawn
    /\ ~htlcs[HtlcId(0)].swap_executed

\* C40: after any sequence of RegisterPool and UpdatePoolInfo calls every pool
\* in the registry holds at least two reserve entries and a reserve for each
\* denomination it lists, so that an estimate between two denominations a
\* stored pool lists never fails because a token is not found in the pool.
C40_StoredPoolsHaveReserves ==
    \A pool_id \in DOMAIN pool_registry :
        LET pool_info == pool_registry[pool_id]
            listed == { pool_info.token_denoms[i] : i \in 1..Len(pool_info.token_denoms) }
        IN
        /\ Len(pool_info.liquidity) >= 2
        /\ \A denom \in listed : FindCoin(pool_info.liquidity, denom) # None
        /\ \A a, b \in listed :
               a # b => calculate_swap_output(pool_info, a, b, MINIMAL_AMOUNT).err # "Std"

====
